---------------------------- MODULE Spec2Model ----------------------------
(***************************************************************************)
(* A model of qnddb: the Table facade (lookup resolution, validation,      *)
(* page tokens), the local in-memory storage engine and the query cursor.  *)
(*                                                                         *)
(* Python values are modelled as tagged tuples, so that values of          *)
(* different Python types can be compared:                                 *)
(*     <<"str", cs>>   a str, cs the sequence of its characters            *)
(*     <<"int", n>>    an int                                              *)
(* A dict whose iteration order the code reads (a key fragment, a position *)
(* token) is a sequence of <<name, value>> pairs in insertion order; a     *)
(* stored record, whose field order no operation reads, is a function from *)
(* field names to values.  A str the code only tests for truth or splits   *)
(* (a page token) is the sequence of its characters, and None and "" are   *)
(* both the empty sequence where the code tells them apart by truth only.  *)
(***************************************************************************)
EXTENDS Integers, Sequences, FiniteSets, TLC

VARIABLES
    table,      \* the Table object: its descriptor fields (table.py:44-50)
    lookup,     \* the last call of Table._determine_lookup and what it gave
    pages,      \* the backend's pages behind a cursor's _do_fetch
    cur,        \* the QueryCursor object: page, have_eof, i, pagination_token
    hist,       \* what the caller did with the cursor: consumed elements, last accesses
    tables,     \* LocalStorage.tables: table name -> list of records
    last,       \* the last call of the Table facade on the local engine, and its result
    lock,       \* the threading.Lock of storage/local_storage.py:13: TRUE while held
    threads,    \* each thread's call of a LocalStorage method: where it is, its locals
    committed,  \* self.tables as it was when the last mutating call returned
    initial,    \* self.tables as it was before the first call of a thread
    batch,      \* a call of AwsDynamoStorage.batch_get_item: its locals, the remote table
    delmany,    \* a call of Table.del_many: its locals
    remote      \* the DynamoDB table behind an AwsDynamoStorage: encoded key -> encoded item

\* The variables of the threads, which the single-caller specifications leave alone.
conc == <<lock, threads, committed, initial>>

\* The frames of the calls that are followed statement by statement, and the
\* remote table.
frames == <<batch, delmany, remote>>

vars == <<table, lookup, pages, cur, hist, tables, last, lock, threads, committed, initial,
          batch, delmany, remote>>

(***************************************************************************)
(* Bounds of the model.                                                    *)
(***************************************************************************)
MaxIndexes == 2     \* indexes declared on a table, in the lookup specification
MaxPages == 3       \* pages the backend holds behind a cursor
MaxPageLen == 2     \* records in one backend page
MaxRecords == 3     \* records stored in the local engine's table
MaxWrites == 2      \* records stored in the table the updates are explored on
MaxValue == 2       \* the largest number an update leaves in a field
MaxThreads == 3     \* threads calling the local engine at once
MaxBatch == 2       \* ids of a batch read, below and beyond the size of a request

\* Python's None where a field name is expected (a sort key that is not declared).
None == "None"

(***************************************************************************)
(* Values and dicts.                                                       *)
(***************************************************************************)
Str(cs) == <<"str", cs>>
Int_(n) == <<"int", n>>

\* Python's truth of a str or int value: `not v` holds of "" and of 0.
Falsy(v) == \/ v[1] = "str" /\ v[2] = <<>>
            \/ v[1] = "int" /\ v[2] = 0

\* d.keys() of an insertion-ordered dict, as a sequence, and as a set.
KeySeq(d) == [n \in 1..Len(d) |-> d[n][1]]
KeySet(d) == {d[n][1] : n \in 1..Len(d)}
\* d[k] of an insertion-ordered dict that has k.
DictGet(d, k) == d[CHOOSE n \in 1..Len(d) : d[n][1] = k][2]

\* No call of batch_get_item or del_many is under way, and no remote table
\* is in use.
NoFrames ==
    /\ batch = <<>>
    /\ delmany = <<>>
    /\ remote = <<>>

\* No thread has made a call and the lock is free.
Unthreaded ==
    /\ lock = FALSE
    /\ threads = <<>>
    /\ committed = <<>>
    /\ initial = <<>>

\* One caller, making one call of the facade at a time.
Sequential == Unthreaded /\ NoFrames

(***************************************************************************)
(* Table and Index descriptors (table.py:13-50).                           *)
(***************************************************************************)
\* Index.__init__: the index name defaults to '{partition_key}-{sort_key}-index'.
Index(partition_key, sort_key, keys_only) ==
    [partition_key |-> partition_key,
     sort_key      |-> sort_key,
     index_name    |-> IF sort_key # None
                       THEN partition_key \o "-" \o sort_key \o "-index"
                       ELSE partition_key \o "-index",
     keys_only     |-> keys_only]

\* Table.__init__.
Table(table_name, partition_key, sort_key, indexes) ==
    [table_name    |-> table_name,
     partition_key |-> partition_key,
     sort_key      |-> sort_key,
     indexes       |-> indexes]

\* Table._key_names: the set of the table's key fields.
_key_names(t) == {x \in {t.partition_key, t.sort_key} : x # None}

\* Table.key_names: the same as a list, partition key first.
key_names(t) == <<t.partition_key>> \o (IF t.sort_key # None THEN <<t.sort_key>> ELSE <<>>)

(***************************************************************************)
(* Lookup resolution (table.py:225-254).  A result is a TableLookup, an    *)
(* IndexLookup or the error raised.                                        *)
(***************************************************************************)
TableLookup(table_name, key) ==
    [kind |-> "TableLookup", table_name |-> table_name, index_name |-> None,
     key |-> key, sort_key |-> None, keys_only |-> FALSE, why |-> None]

IndexLookup(table_name, index_name, key, sort_key, keys_only) ==
    [kind |-> "IndexLookup", table_name |-> table_name, index_name |-> index_name,
     key |-> key, sort_key |-> sort_key, keys_only |-> keys_only, why |-> None]

\* An exception: its class and the raise statement it comes from.
Raise(class, why) ==
    [kind |-> class, table_name |-> None, index_name |-> None,
     key |-> <<>>, sort_key |-> None, keys_only |-> FALSE, why |-> why]

IsError(r) == r.kind \in {"ValueError", "RuntimeError"}

\* A faulty variant of the test below, which also takes an index whose sort
\* key is the one field; the formula of C7 tells it from the code.
IndexMatches_SortKeyToo(index, keys, one_key) ==
    LET index_key_names == {x \in {index.partition_key, index.sort_key} : x # None}
    IN  keys = index_key_names \/ one_key \in {index.partition_key, index.sort_key}

\* The test of the loop over the indexes, table.py:239-240.
IndexMatches(index, keys, one_key) ==
    LET index_key_names == {x \in {index.partition_key, index.sort_key} : x # None}
    IN  keys = index_key_names \/ one_key = index.partition_key

\* Table._determine_lookup.  one_key is list(keys)[0], the first element of a
\* set of strings in iteration order: which element that is depends on the
\* strings' hashes, so the caller of this operator chooses it among keys.
_determine_lookup(t, key_data, many, one_key) ==
    LET keys       == KeySet(key_data)
        table_keys == _key_names(t)
        hits       == {n \in 1..Len(t.indexes) : IndexMatches(t.indexes[n], keys, one_key)}
    IN  IF \E n \in 1..Len(key_data) : Falsy(key_data[n][2])
        THEN Raise("ValueError", "empty value")
        ELSE IF keys = table_keys
        THEN TableLookup(t.table_name, key_data)
        ELSE IF hits # {}
        THEN LET index == t.indexes[CHOOSE n \in hits : \A m \in hits : n <= m]
             IN  IndexLookup(t.table_name, index.index_name, key_data,
                             index.sort_key, index.keys_only)
        ELSE IF Cardinality(keys) # 1
        THEN Raise("RuntimeError", "expecting table keys")
        ELSE IF one_key = t.partition_key
        THEN IF ~many
             THEN Raise("RuntimeError", "missing sort key")
             ELSE TableLookup(t.table_name, key_data)
        ELSE Raise("RuntimeError", "not partition key or index")

(***************************************************************************)
(* Strings the code formats and parses (cursor.py:85-93): a str is the     *)
(* sequence of its characters.                                             *)
(***************************************************************************)
Digits == <<"0", "1", "2", "3", "4", "5", "6", "7", "8", "9">>

\* str(n) of an int n >= 0, as the f-string of next_page_token formats it.
RECURSIVE DecStr(_)
DecStr(n) == IF n < 10 THEN <<Digits[n + 1]>>
             ELSE Append(DecStr(n \div 10), Digits[(n % 10) + 1])

\* int(s) of a str of decimal digits.
RECURSIVE DecInt(_)
DecInt(cs) ==
    IF Len(cs) = 0 THEN 0
    ELSE 10 * DecInt(SubSeq(cs, 1, Len(cs) - 1))
         + ((CHOOSE d \in 1..10 : Digits[d] = cs[Len(cs)]) - 1)

\* s.split(ch): the parts of s between the occurrences of ch.
RECURSIVE Split(_, _)
Split(cs, ch) ==
    IF \A n \in 1..Len(cs) : cs[n] # ch THEN <<cs>>
    ELSE LET at == CHOOSE n \in 1..Len(cs) : cs[n] = ch /\ \A m \in 1..(n - 1) : cs[m] # ch
         IN  <<SubSeq(cs, 1, at - 1)>> \o Split(SubSeq(cs, at + 1, Len(cs)), ch)

\* A token that is None or "": both are false for the code's truth tests.
NoToken == <<>>
Truthy(tok) == tok # <<>>

(***************************************************************************)
(* Page tokens of the Table facade (table.py:296-307): the position key,   *)
(* a dict, is written as JSON text, the text as UTF-8 bytes, and the bytes *)
(* in URL-safe base64.  The model's strs hold ASCII letters only, which    *)
(* json.dumps writes unescaped and UTF-8 encodes as one byte each.         *)
(***************************************************************************)
\* The ASCII characters the tokens are made of, in code order: 32 (space)
\* to 95 (_), and 97 (a) to 126 (~).
Ascii32 ==
    <<" ", "!", "\"", "#", "$", "%", "&", "'", "(", ")", "*", "+", ",", "-", ".", "/",
      "0", "1", "2", "3", "4", "5", "6", "7", "8", "9", ":", ";", "<", "=", ">", "?",
      "@", "A", "B", "C", "D", "E", "F", "G", "H", "I", "J", "K", "L", "M", "N", "O",
      "P", "Q", "R", "S", "T", "U", "V", "W", "X", "Y", "Z", "[", "\\", "]", "^", "_">>
Ascii97 ==
    <<"a", "b", "c", "d", "e", "f", "g", "h", "i", "j", "k", "l", "m", "n", "o",
      "p", "q", "r", "s", "t", "u", "v", "w", "x", "y", "z", "{", "|", "}", "~">>

\* ord(c) and chr(n) over those characters.
Ord == [c \in {Ascii32[n] : n \in 1..Len(Ascii32)} \cup {Ascii97[n] : n \in 1..Len(Ascii97)} |->
           IF \E n \in 1..Len(Ascii32) : Ascii32[n] = c
           THEN 31 + CHOOSE n \in 1..Len(Ascii32) : Ascii32[n] = c
           ELSE 96 + CHOOSE n \in 1..Len(Ascii97) : Ascii97[n] = c]
Chr(n) == IF n < 96 THEN Ascii32[n - 31] ELSE Ascii97[n - 96]

\* The alphabet of base64.urlsafe_b64encode: A-Z, a-z, 0-9, '-' and '_'.
B64Alphabet ==
    <<"A", "B", "C", "D", "E", "F", "G", "H", "I", "J", "K", "L", "M", "N", "O", "P",
      "Q", "R", "S", "T", "U", "V", "W", "X", "Y", "Z", "a", "b", "c", "d", "e", "f",
      "g", "h", "i", "j", "k", "l", "m", "n", "o", "p", "q", "r", "s", "t", "u", "v",
      "w", "x", "y", "z", "0", "1", "2", "3", "4", "5", "6", "7", "8", "9", "-", "_">>

B64Index == [c \in {B64Alphabet[n] : n \in 1..64} |->
                (CHOOSE n \in 1..64 : B64Alphabet[n] = c) - 1]

\* base64.urlsafe_b64encode of a byte string, '=' padding included.
RECURSIVE B64Encode(_)
B64Encode(bytes) ==
    LET sx(n) == B64Alphabet[n + 1]
        b1 == bytes[1]
        b2 == IF Len(bytes) >= 2 THEN bytes[2] ELSE 0
        b3 == IF Len(bytes) >= 3 THEN bytes[3] ELSE 0
    IN  IF Len(bytes) = 0 THEN <<>>
        ELSE IF Len(bytes) = 1
        THEN <<sx(b1 \div 4), sx((b1 % 4) * 16), "=", "=">>
        ELSE IF Len(bytes) = 2
        THEN <<sx(b1 \div 4), sx((b1 % 4) * 16 + b2 \div 16), sx((b2 % 16) * 4), "=">>
        ELSE <<sx(b1 \div 4), sx((b1 % 4) * 16 + b2 \div 16),
               sx((b2 % 16) * 4 + b3 \div 64), sx(b3 % 64)>>
             \o B64Encode(SubSeq(bytes, 4, Len(bytes)))

\* base64.urlsafe_b64decode of padded base64 text.
RECURSIVE B64Decode(_)
B64Decode(cs) ==
    LET s1 == B64Index[cs[1]]
        s2 == B64Index[cs[2]]
        s3 == B64Index[cs[3]]
        s4 == B64Index[cs[4]]
    IN  IF Len(cs) < 4 THEN <<>>
        ELSE IF cs[3] = "=" THEN <<s1 * 4 + s2 \div 16>>
        ELSE IF cs[4] = "=" THEN <<s1 * 4 + s2 \div 16, (s2 % 16) * 16 + s3 \div 4>>
        ELSE <<s1 * 4 + s2 \div 16, (s2 % 16) * 16 + s3 \div 4, (s3 % 4) * 64 + s4>>
             \o B64Decode(SubSeq(cs, 5, Len(cs)))

\* The characters of the field names the model uses.
NameChars ==
    [id |-> <<"i", "d">>, sk |-> <<"s", "k">>, x |-> <<"x">>, y |-> <<"y">>,
     offset |-> <<"o", "f", "f", "s", "e", "t">>]

\* A writer that quotes every value, numbers too.
JsonValue_Quoted(v) ==
    IF v[1] = "int" THEN <<"\"">> \o DecStr(v[2]) \o <<"\"">>
    ELSE <<"\"">> \o v[2] \o <<"\"">>

\* json.dumps of a str or int value, and of a dict of them.
JsonValue(v) ==
    IF v[1] = "int"
    THEN (IF v[2] < 0 THEN <<"-">> \o DecStr(-v[2]) ELSE DecStr(v[2]))
    ELSE <<"\"">> \o v[2] \o <<"\"">>

RECURSIVE JsonItems(_)
JsonItems(d) ==
    IF Len(d) = 0 THEN <<>>
    ELSE <<"\"">> \o NameChars[d[1][1]] \o <<"\"", ":", " ">> \o JsonValue(d[1][2])
         \o (IF Len(d) > 1 THEN <<",", " ">> ELSE <<>>) \o JsonItems(Tail(d))

JsonDumps(d) == <<"{">> \o JsonItems(d) \o <<"}">>

\* json.loads of such text.  Parsing goes left to right: a value is a quoted
\* str or a run of digits with an optional sign.
IndexFrom(cs, from, ch) == CHOOSE n \in from..Len(cs) :
                               cs[n] = ch /\ \A m \in from..(n - 1) : cs[m] # ch

RECURSIVE JsonParseItems(_, _)
JsonParseItems(cs, at) ==
    IF cs[at] = "}" THEN <<>>
    ELSE IF cs[at] \in {",", " "} THEN JsonParseItems(cs, at + 1)
    ELSE LET nameEnd == IndexFrom(cs, at + 1, "\"")
             name    == CHOOSE f \in DOMAIN NameChars :
                            NameChars[f] = SubSeq(cs, at + 1, nameEnd - 1)
             vAt     == nameEnd + 3
             isStr   == cs[vAt] = "\""
             vEnd    == IF isStr THEN IndexFrom(cs, vAt + 1, "\"")
                        ELSE (CHOOSE n \in vAt..Len(cs) :
                                  /\ cs[n + 1] \in {",", "}"}
                                  /\ \A m \in vAt..n : cs[m] \notin {",", "}"})
             value   == IF isStr THEN Str(SubSeq(cs, vAt + 1, vEnd - 1))
                        ELSE IF cs[vAt] = "-" THEN Int_(-DecInt(SubSeq(cs, vAt + 1, vEnd)))
                        ELSE Int_(DecInt(SubSeq(cs, vAt, vEnd)))
         IN  <<<<name, value>>>> \o JsonParseItems(cs, vEnd + 1)

JsonLoads(cs) == JsonParseItems(cs, 2)

\* encode_page_token: None stays None, a position key becomes its token.
encode_page_token(x) ==
    IF x = <<>> THEN NoToken
    ELSE LET text == JsonDumps(x)
         IN  B64Encode([n \in 1..Len(text) |-> Ord[text[n]]])

\* decode_page_token.
decode_page_token(x) ==
    IF x = NoToken THEN <<>>
    ELSE LET bytes == B64Decode(x)
         IN  JsonLoads([n \in 1..Len(bytes) |-> Chr(bytes[n])])

(***************************************************************************)
(* Conditions (conditions.py).  A fragment value is a plain value or a     *)
(* condition object; Between is the condition the model uses.              *)
(***************************************************************************)
Between(minval, maxval) == <<"between", minval, maxval>>

\* isinstance(v, DynamoCondition)
IsCondition(v) == v[1] = "between"

\* Python's < on two strs (by code point) and on two values of one type.
RECURSIVE CharsLess(_, _)
CharsLess(a, b) ==
    IF Len(b) = 0 THEN FALSE
    ELSE IF Len(a) = 0 THEN TRUE
    ELSE IF a[1] # b[1] THEN Ord[a[1]] < Ord[b[1]]
    ELSE CharsLess(Tail(a), Tail(b))

ValueLess(v, w) == IF v[1] = "int" THEN v[2] < w[2] ELSE CharsLess(v[2], w[2])
ValueLE(v, w) == v = w \/ ValueLess(v, w)

\* Between.matches: minval <= value <= maxval.
matches(cond, value) == ValueLE(cond[2], value) /\ ValueLE(value, cond[3])

\* DynamoCondition.partition: the equality entries and the condition entries.
partition(key) ==
    [eq    |-> SelectSeq(key, LAMBDA kv : ~IsCondition(kv[2])),
     conds |-> SelectSeq(key, LAMBDA kv : IsCondition(kv[2]))]

\* validate_only_sort_key raises RuntimeError exactly when this is FALSE.
validate_only_sort_key(conds, sort_key) ==
    ~(sort_key # None /\ KeySet(conds) \ {sort_key} # {})

(***************************************************************************)
(* LocalStorage (storage/local_storage.py).  self.tables maps a table name *)
(* to the list of its records; a record is a function from field names to  *)
(* values.  Operators that read return a record [error, items,             *)
(* next_page_key]; error is None or the class of the exception raised.     *)
(***************************************************************************)
\* self.tables.get(table_name, [])
Records(tbls, table_name) ==
    IF table_name \in DOMAIN tbls THEN tbls[table_name] ELSE <<>>

\* record.get(k) == v
FieldIs(record, k, v) == k \in DOMAIN record /\ record[k] = v

_eq_matches(record, key) ==
    \A n \in 1..Len(key) : FieldIs(record, key[n][1], key[n][2])

_query_matches(record, eq, conds) ==
    /\ \A n \in 1..Len(eq) : FieldIs(record, eq[n][1], eq[n][2])
    /\ \A n \in 1..Len(conds) : matches(conds[n][2], record[conds[n][1]])

\* cond.matches(None) raises TypeError: a record that passes the equality
\* entries and lacks a field a condition is on.
MatchRaises(record, eq, conds) ==
    /\ \A n \in 1..Len(eq) : FieldIs(record, eq[n][1], eq[n][2])
    /\ \E n \in 1..Len(conds) : conds[n][1] \notin DOMAIN record

\* _find_index: the position of the first record the key matches, 0 for None.
_find_index(records, key) ==
    IF \E n \in 1..Len(records) : _eq_matches(records[n], key)
    THEN CHOOSE n \in 1..Len(records) :
             /\ _eq_matches(records[n], key)
             /\ \A m \in 1..(n - 1) : ~_eq_matches(records[m], key)
    ELSE 0

\* list.sort(key=lambda x: x[sort_key]): ascending and stable.
RECURSIVE SortBy(_, _)
SortBy(records, sort_key) ==
    IF Len(records) <= 1 THEN records
    ELSE LET init == SortBy(SubSeq(records, 1, Len(records) - 1), sort_key)
             r    == records[Len(records)]
             keep == Cardinality({n \in 1..Len(init) :
                                     ~ValueLess(r[sort_key], init[n][sort_key])})
         IN  SubSeq(init, 1, keep) \o <<r>> \o SubSeq(init, keep + 1, Len(init))

Reverse(xs) == [n \in 1..Len(xs) |-> xs[Len(xs) + 1 - n]]

\* ret[k] = v on a dict: replaces the value of an existing key in place,
\* appends a new key.
DictSet(d, k, v) ==
    IF k \in KeySet(d)
    THEN [n \in 1..Len(d) |-> IF d[n][1] = k THEN <<k, v>> ELSE d[n]]
    ELSE Append(d, <<k, v>>)

\* extract_key(i, record) of query: the position key of a record.
extract_key(key, sort_key, i, record) ==
    LET ret == [n \in 1..Len(key) |-> <<key[n][1], record[key[n][1]]>>]
    IN  IF sort_key = None THEN DictSet(ret, "offset", Int_(i))
        ELSE DictSet(ret, sort_key, record[sort_key])

\* orderable(key) of query: the pair that position keys are compared by.
orderable(key, sort_key) ==
    LET names         == KeySeq(key)
        First(P(_))   == names[CHOOSE n \in 1..Len(names) :
                                   P(names[n]) /\ \A m \in 1..(n - 1) : ~P(names[m])]
        partition_key == First(LAMBDA k : k # sort_key)
        second_key    == First(LAMBDA k : k # partition_key)
    IN  <<DictGet(key, partition_key), DictGet(key, second_key)>>

\* (a1, a2) <= (b1, b2) on pairs.
PairLE(a, b) == IF a[1] # b[1] THEN ValueLess(a[1], b[1]) ELSE ValueLE(a[2], b[2])

before_or_equal(key0, key1, sort_key, reverse) ==
    LET k0 == orderable(key0, sort_key)
        k1 == orderable(key1, sort_key)
    IN  IF ~reverse \/ sort_key = None THEN PairLE(k0, k1) ELSE PairLE(k1, k0)

\* while pagination_token and with_keys and before_or_equal(...): pop(0)
RECURSIVE DropSeen(_, _, _, _)
DropSeen(with_keys, pagination_token, sort_key, reverse) ==
    IF /\ pagination_token # <<>>
       /\ with_keys # <<>>
       /\ before_or_equal(with_keys[1][1], pagination_token, sort_key, reverse)
    THEN DropSeen(Tail(with_keys), pagination_token, sort_key, reverse)
    ELSE with_keys

\* limit None and limit 0 both fail the test "if limit".
NoLimit == 0

\* shared tells whether the records returned are the dict objects held in
\* self.tables (a copy of the list only) or dicts built for the caller.
QueryResult(error, items, next_page_key) ==
    [error |-> error, items |-> items, next_page_key |-> next_page_key, shared |-> FALSE]

\* copy.copy of a list of stored records: a new list of the same dicts.
StoredObjects(r) == [r EXCEPT !.shared = TRUE]

\* The steps of query, each an operator on the list the step before built.
\* The page: the first limit entries with the key of the last of them, or
\* all the entries and None.
Limited(with_keys, limit) ==
    IF limit # NoLimit /\ limit < Len(with_keys)
    THEN StoredObjects(QueryResult(None, [n \in 1..limit |-> with_keys[n][2]],
                                   with_keys[limit][1]))
    ELSE StoredObjects(QueryResult(None, [n \in 1..Len(with_keys) |-> with_keys[n][2]], <<>>))

\* with_keys: every record with its position key; enumerate counts from 0.
WithKeys(ordered, key, sort_key) ==
    [n \in 1..Len(ordered) |-> <<extract_key(key, sort_key, n - 1, ordered[n]), ordered[n]>>]

\* filtered left in storage order, reversed on demand.
Ordered_Unsorted(filtered, sort_key, reverse) == IF reverse THEN Reverse(filtered) ELSE filtered

\* filtered, after the sort and the reversal.
Ordered(filtered, sort_key, reverse) ==
    IF sort_key = None
    THEN (IF reverse THEN Reverse(filtered) ELSE filtered)
    ELSE (IF reverse THEN Reverse(SortBy(filtered, sort_key)) ELSE SortBy(filtered, sort_key))

\* From the filtered records on; x[sort_key] raises KeyError on a record
\* that lacks the field.
QueryFiltered(filtered, key, sort_key, reverse, limit, pagination_token) ==
    IF sort_key # None /\ \E n \in 1..Len(filtered) : sort_key \notin DOMAIN filtered[n]
    THEN QueryResult("KeyError", <<>>, <<>>)
    ELSE Limited(DropSeen(WithKeys(Ordered(filtered, sort_key, reverse), key, sort_key),
                          pagination_token, sort_key, reverse),
                 limit)

\* From the partitioned key and the table's records on.
QueryRecords(records, parts, key, sort_key, reverse, limit, pagination_token) ==
    IF ~validate_only_sort_key(parts.conds, sort_key)
    THEN QueryResult("RuntimeError", <<>>, <<>>)
    ELSE IF \E n \in 1..Len(records) : MatchRaises(records[n], parts.eq, parts.conds)
    THEN QueryResult("TypeError", <<>>, <<>>)
    ELSE QueryFiltered(SelectSeq(records, LAMBDA r : _query_matches(r, parts.eq, parts.conds)),
                       key, sort_key, reverse, limit, pagination_token)

query(tbls, table_name, key, sort_key, reverse, limit, pagination_token) ==
    QueryRecords(Records(tbls, table_name), partition(key), key, sort_key, reverse, limit,
                 pagination_token)

\* A projection that drops nothing.
Projected_Everything(r, keys_only, keys_to_retain) == r

\* The projection of query_index: on a keys-only index a record keeps the
\* fields of the fragment, the index sort key and the table's key fields.
Projected(r, keys_only, keys_to_retain) ==
    IF r.error # None \/ ~keys_only THEN r
    ELSE IF \E n \in 1..Len(r.items) : ~(keys_to_retain \subseteq DOMAIN r.items[n])
    THEN QueryResult("KeyError", <<>>, <<>>)
    ELSE QueryResult(None,
                     [n \in 1..Len(r.items) |-> [f \in keys_to_retain |-> r.items[n][f]]],
                     r.next_page_key)

query_index(tbls, table_name, index_name, keys, sort_key, reverse, limit, pagination_token, keys_only, table_key_names) ==
    Projected(query(tbls, table_name, keys, sort_key, reverse, limit, pagination_token),
              keys_only,
              KeySet(keys) \cup (IF sort_key # None THEN {sort_key} ELSE {})
                  \cup {table_key_names[n] : n \in 1..Len(table_key_names)})

\* first_or_none: the first element or None, as a list of at most one element.
first_or_none(xs) == IF xs # <<>> THEN <<xs[1]>> ELSE <<>>

\* What get_item makes of the result of its query.
FirstItem(r) == [r EXCEPT !.items = first_or_none(r.items), !.next_page_key = <<>>]

get_item(tbls, table_name, key) ==
    FirstItem(query(tbls, table_name, key, None, FALSE, NoLimit, <<>>))

\* self.tables after put, update and delete.
SetRecords(tbls, table_name, records) ==
    [n \in DOMAIN tbls \cup {table_name} |-> IF n = table_name THEN records ELSE tbls[n]]

put(tbls, table_name, key, data) ==
    LET records == Records(tbls, table_name)
        index   == _find_index(records, key)
    IN  SetRecords(tbls, table_name,
                   IF index = 0 THEN Append(records, data)
                   ELSE [records EXCEPT ![index] = data])

delete(tbls, table_name, key) ==
    LET records == Records(tbls, table_name)
        index   == _find_index(records, key)
    IN  IF index = 0 THEN [tables |-> tbls, ret |-> <<>>]
        ELSE [tables |-> SetRecords(tbls, table_name,
                             SubSeq(records, 1, index - 1)
                                 \o SubSeq(records, index + 1, Len(records))),
              ret    |-> <<records[index]>>]

\* An update that is None deletes the field.
NoneValue == <<"none">>

\* DynamoIncrement(delta), an update that is no plain value (updates.py:15-26).
DynamoIncrement(delta) == <<"DynamoIncrement", delta>>

\* A Python list of values, and DynamoAddToList(*elements) (updates.py:70-86).
List(xs) == <<"list", xs>>
DynamoAddToList(elements) == <<"DynamoAddToList", elements>>

\* isinstance(update, DynamoUpdate)
IsDynamoUpdate(update) == update[1] \in {"DynamoIncrement", "DynamoAddToList"}

\* DynamoIncrement.apply_in_memory: record[name] = record.get(name, 0) + delta;
\* the sum of a str and a number raises TypeError.
IncrementRaises(record, name) == name \in DOMAIN record /\ record[name][1] # "int"
Incremented(record, name, delta) ==
    Int_((IF name \in DOMAIN record THEN record[name][2] ELSE 0) + delta)

\* DynamoAddToList.apply_in_memory: existing = record.get(name, []); a value
\* that is no list raises TypeError, else record[name] = existing + elements.
AddToListRaises(record, name) == name \in DOMAIN record /\ record[name][1] # "list"
AddedToList(record, name, elements) ==
    List((IF name \in DOMAIN record THEN record[name][2] ELSE <<>>) \o elements)

\* update.apply_in_memory(record, name) raises.
ApplyRaises(record, name, update) ==
    \/ update[1] = "DynamoIncrement" /\ IncrementRaises(record, name)
    \/ update[1] = "DynamoAddToList" /\ AddToListRaises(record, name)

\* record with record[name] = value
Assign(record, name, value) ==
    [f \in DOMAIN record \cup {name} |-> IF f = name THEN value ELSE record[f]]

\* An update that stores every entry as a plain value.
ApplyUpdate_Overwrite(record, name, update) == Assign(record, name, update)

\* One entry of the updates applied to the record.
ApplyUpdate(record, name, update) ==
    IF update[1] = "DynamoIncrement"
    THEN Assign(record, name, Incremented(record, name, update[2]))
    ELSE IF update[1] = "DynamoAddToList"
    THEN Assign(record, name, AddedToList(record, name, update[2]))
    ELSE IF update = NoneValue THEN [f \in DOMAIN record \ {name} |-> record[f]]
    ELSE Assign(record, name, update)

\* The loop of LocalStorage.update over the updates, in their order: the
\* record is changed in place, so an entry that raises leaves the entries
\* before it applied.
RECURSIVE ApplyUpdates(_, _)
ApplyUpdates(record, updates) ==
    IF updates = <<>> THEN [record |-> record, error |-> None]
    ELSE IF ApplyRaises(record, updates[1][1], updates[1][2])
    THEN [record |-> record, error |-> "TypeError"]
    ELSE ApplyUpdates(ApplyUpdate(record, updates[1][1], updates[1][2]), Tail(updates))

\* key.copy() as a record.
KeyRecord(key) == [f \in KeySet(key) |-> DictGet(key, f)]

\* update, from the records with the record of the key and its index on.
Updated(tbls, table_name, all, index, applied) ==
    [tables |-> SetRecords(tbls, table_name, [all EXCEPT ![index] = applied.record]),
     ret    |-> IF applied.error = None THEN <<applied.record>> ELSE <<>>,
     error  |-> applied.error]

UpdateAt(tbls, table_name, all, index, updates) ==
    Updated(tbls, table_name, all, index, ApplyUpdates(all[index], updates))

UpdateFound(tbls, table_name, records, found, key, updates) ==
    IF found = 0
    THEN UpdateAt(tbls, table_name, Append(records, KeyRecord(key)), Len(records) + 1, updates)
    ELSE UpdateAt(tbls, table_name, records, found, updates)

update(tbls, table_name, key, updates) ==
    UpdateFound(tbls, table_name, Records(tbls, table_name),
                _find_index(Records(tbls, table_name), key), key, updates)

item_count(tbls, table_name) == Len(Records(tbls, table_name))

\* scan, from the items after the offset of the token on: the first limit of
\* them and the offset of the next, or all of them and None.
ScanPage(items, start_index, limit) ==
    IF limit # NoLimit /\ limit < Len(items)
    THEN StoredObjects(QueryResult(None, SubSeq(items, 1, limit),
                                   <<<<"offset", Int_(start_index + limit)>>>>))
    ELSE StoredObjects(QueryResult(None, items, <<>>))

\* A scan that starts from the first item whatever the offset.
ScanFrom_Restart(items, start_index, limit) == ScanPage(items, start_index, limit)

\* items[start_index:]
ScanFrom(items, start_index, limit) ==
    ScanPage(SubSeq(items, start_index + 1, Len(items)), start_index, limit)

scan(tbls, table_name, limit, pagination_token) ==
    ScanFrom(Records(tbls, table_name),
             IF Truthy(pagination_token) THEN DictGet(pagination_token, "offset")[2] ELSE 0,
             limit)

(***************************************************************************)
(* The Table facade over LocalStorage (table.py:52-189).  A call returns   *)
(* [error, items, next_page_token, tables, calls]: the class of the        *)
(* exception it raises or None, the records it returns, the token of the   *)
(* page, self.tables after the call and the storage methods it invoked.    *)
(***************************************************************************)
Returns(error, items, token, tbls, calls) ==
    [error |-> error, items |-> items, next_page_token |-> token,
     tables |-> tbls, calls |-> calls, shared |-> FALSE, position |-> <<>>]

\* A call that returns the records of its storage call r as they came.
Passes(ret, r) == [ret EXCEPT !.shared = r.shared]

\* Table._extract_key, once the data is known to hold the key fields.
_extract_key(t, data) ==
    [n \in 1..Len(key_names(t)) |-> <<key_names(t)[n], data[key_names(t)[n]]>>]

\* Table._validate_key: None, or the class of the error raised.
_validate_key(t, key) ==
    IF KeySet(key) # _key_names(t) THEN "RuntimeError"
    ELSE IF \E n \in 1..Len(key) : Falsy(key[n][2]) THEN "RuntimeError"
    ELSE None

\* What Table.get returns from the result r of its storage call.
GotItem(r, tbls, call) ==
    Passes(Returns(r.error, first_or_none(r.items), NoToken, tbls, <<call>>), r)

\* Table.get, from the lookup found on.
GetFound(t, tbls, found) ==
    IF IsError(found) THEN Returns(found.kind, <<>>, NoToken, tbls, <<>>)
    ELSE IF found.kind = "TableLookup"
    THEN GotItem(get_item(tbls, found.table_name, found.key), tbls, "get_item")
    ELSE GotItem(query_index(tbls, found.table_name, found.index_name, found.key,
                             found.sort_key, FALSE, 1, <<>>, found.keys_only, key_names(t)),
                 tbls, "query_index")

\* Table.get
get(t, tbls, key, one_key) == GetFound(t, tbls, _determine_lookup(t, key, FALSE, one_key))

\* The ResultPage Table.get_many returns from the result r of its storage
\* call; position keeps the position key the token encodes.
GotPage(r, tbls, call) ==
    [Passes(Returns(r.error, r.items, encode_page_token(r.next_page_key), tbls, <<call>>), r)
        EXCEPT !.position = r.next_page_key]

\* Table.get_many, from the lookup found and the decoded token on.
GetManyFound(t, tbls, found, reverse, limit, token) ==
    IF IsError(found) THEN Returns(found.kind, <<>>, NoToken, tbls, <<>>)
    ELSE IF found.kind = "TableLookup"
    THEN GotPage(query(tbls, found.table_name, found.key, t.sort_key, reverse, limit, token),
                 tbls, "query")
    ELSE GotPage(query_index(tbls, found.table_name, found.index_name, found.key,
                             found.sort_key, reverse, limit, token,
                             found.keys_only, key_names(t)),
                 tbls, "query_index")

\* Table.get_many
get_many(t, tbls, key, reverse, limit, pagination_token, one_key) ==
    GetManyFound(t, tbls, _determine_lookup(t, key, TRUE, one_key), reverse, limit,
                 decode_page_token(pagination_token))

\* Table.batch_get of a list of keys, from the lookups and the items they get
\* on; items holds, per key, the list of the record found or the empty list
\* for None.
BatchFound(tbls, lookups, got) ==
    IF \E n \in 1..Len(lookups) : IsError(lookups[n])
    THEN Returns(lookups[CHOOSE n \in 1..Len(lookups) :
                             /\ IsError(lookups[n])
                             /\ \A m \in 1..(n - 1) : ~IsError(lookups[m])].kind,
                 <<>>, NoToken, tbls, <<>>)
    ELSE IF \E n \in 1..Len(lookups) : lookups[n].kind # "TableLookup"
    THEN Returns("RuntimeError", <<>>, NoToken, tbls, <<>>)
    ELSE IF lookups = <<>> THEN Returns(None, <<>>, NoToken, tbls, <<>>)
    ELSE IF \E n \in 1..Len(got) : got[n].error # None
    THEN Returns(got[CHOOSE n \in 1..Len(got) : got[n].error # None].error,
                 <<>>, NoToken, tbls, <<"batch_get_item">>)
    ELSE Passes(Returns(None, [n \in 1..Len(got) |-> got[n].items], NoToken, tbls,
                        <<"batch_get_item">>),
                got[1])

\* Table.batch_get
batch_get(t, tbls, keys, one_keys) ==
    BatchFound(tbls,
               [n \in 1..Len(keys) |-> _determine_lookup(t, keys[n], FALSE, one_keys[n])],
               [n \in 1..Len(keys) |-> get_item(tbls, t.table_name, keys[n])])

\* Table.create
create(t, tbls, data) ==
    IF t.partition_key \notin DOMAIN data THEN Returns("ValueError", <<>>, NoToken, tbls, <<>>)
    ELSE IF t.sort_key # None /\ t.sort_key \notin DOMAIN data
    THEN Returns("ValueError", <<>>, NoToken, tbls, <<>>)
    ELSE Returns(None, <<data>>, NoToken,
                 put(tbls, t.table_name, _extract_key(t, data), data), <<"put">>)

\* Table.update
update_(t, tbls, key, updates) ==
    LET r == update(tbls, t.table_name, key, updates)
    IN  IF _validate_key(t, key) # None
        THEN Returns(_validate_key(t, key), <<>>, NoToken, tbls, <<>>)
        ELSE Returns(r.error, r.ret, NoToken, r.tables, <<"update">>)

\* Table.scan
scan_(t, tbls, limit, pagination_token) ==
    GotPage(scan(tbls, t.table_name, limit, decode_page_token(pagination_token)), tbls, "scan")

\* Table.item_count
item_count_(t, tbls) == item_count(tbls, t.table_name)

\* Table.delete
delete_(t, tbls, key) ==
    LET r == delete(tbls, t.table_name, key)
    IN  IF _validate_key(t, key) # None
        THEN Returns(_validate_key(t, key), <<>>, NoToken, tbls, <<>>)
        ELSE Returns(None, r.ret, NoToken, r.tables, <<"delete">>)

(***************************************************************************)
(* ResultPage (result_page.py) and the backend behind a cursor.            *)
(***************************************************************************)
ResultPage(records, next_page_token) ==
    [records |-> records, next_page_token |-> next_page_token]

\* The backend token that asks for page n (n >= 2) of the backend's pages.
PageToken(n) == <<"p">> \o DecStr(n)

\* QueryCursor._do_fetch, as a subclass implements it: the page the backend
\* returns for a pagination token, with the token of the page after it.
_do_fetch(pgs, pagination_token) ==
    LET n == IF ~Truthy(pagination_token) THEN 1
             ELSE CHOOSE m \in 2..Len(pgs) : PageToken(m) = pagination_token
    IN  ResultPage(pgs[n], IF n < Len(pgs) THEN PageToken(n + 1) ELSE NoToken)

(***************************************************************************)
(* QueryCursor (cursor.py:3-93).  The object's attributes are page (<<>>   *)
(* for None, else <<the ResultPage>>), have_eof ("None", "True", "False"), *)
(* i (-1 while the attribute is not set) and pagination_token; fetches     *)
(* lists the tokens _do_fetch was called with since construction.  Every   *)
(* method is an operator from the object to the object it leaves, with the *)
(* value it returns where it returns one.                                  *)
(***************************************************************************)
\* QueryCursor._fetch_next_page.
_fetch_next_page(pgs, c) ==
    LET page == _do_fetch(pgs, c.pagination_token)
    IN  [c EXCEPT !.i = 0,
                  !.page = <<page>>,
                  !.have_eof = IF Len(page.records) = 0 THEN "True" ELSE "False",
                  !.fetches = Append(@, c.pagination_token)]

\* QueryCursor.eof.
eof(pgs, c) ==
    IF c.have_eof = "True"
    THEN [c |-> c, ret |-> TRUE]
    ELSE LET c1 == IF c.page = <<>> THEN _fetch_next_page(pgs, c) ELSE c
         IN  [c   |-> c1,
              ret |-> /\ c1.i >= Len(c1.page[1].records)
                      /\ ~Truthy(c1.page[1].next_page_token)]

\* A faulty variant of advance, which drops the exhausted page and keeps the
\* token it was fetched with; the formula of C4 tells it from the code.
advance_KeepToken(pgs, c) ==
    IF c.page = <<>>
    THEN _fetch_next_page(pgs, c)
    ELSE LET c1 == [c EXCEPT !.i = @ + 1]
         IN  IF c1.i >= Len(c1.page[1].records) /\ Truthy(c1.page[1].next_page_token)
             THEN [c1 EXCEPT !.page = <<>>]
             ELSE c1

\* QueryCursor.advance.
advance(pgs, c) ==
    IF c.page = <<>>
    THEN _fetch_next_page(pgs, c)
    ELSE LET c1 == [c EXCEPT !.i = @ + 1]
         IN  IF c1.i >= Len(c1.page[1].records) /\ Truthy(c1.page[1].next_page_token)
             THEN [c1 EXCEPT !.pagination_token = c1.page[1].next_page_token,
                             !.page = <<>>]
             ELSE c1

\* QueryCursor.current: status is "ok" with the element, or the error raised.
current(pgs, c) ==
    LET c1 == IF c.page = <<>> THEN _fetch_next_page(pgs, c) ELSE c
        e  == eof(pgs, c1)
    IN  IF e.ret
        THEN [c |-> e.c, status |-> "RuntimeError", value |-> 0]
        ELSE IF e.c.i >= Len(e.c.page[1].records)
        THEN [c |-> e.c, status |-> "IndexError", value |-> 0]
        ELSE [c |-> e.c, status |-> "ok", value |-> e.c.page[1].records[e.c.i + 1]]

\* QueryCursor.next_page_token: None at eof, else '{pagination_token}@{i}'.
next_page_token(pgs, c) ==
    LET e == eof(pgs, c)
    IN  IF e.ret
        THEN [c |-> e.c, ret |-> NoToken]
        ELSE [c |-> e.c, ret |-> e.c.pagination_token \o <<"@">> \o DecStr(e.c.i)]

\* A faulty variant of the loop below, which eats one record too many; the
\* formula of C2 tells it from the code.
RECURSIVE DropInitial_OffByOne(_, _, _, _)
DropInitial_OffByOne(pgs, c, i, drop_initial) ==
    LET e == eof(pgs, c)
    IN  IF ~e.ret /\ i <= drop_initial
        THEN DropInitial_OffByOne(pgs, advance(pgs, e.c), i + 1, drop_initial)
        ELSE e.c

\* The loop of QueryCursor.__init__ that eats the records to drop.
RECURSIVE DropInitial(_, _, _, _)
DropInitial(pgs, c, i, drop_initial) ==
    LET e == eof(pgs, c)
    IN  IF ~e.ret /\ i < drop_initial
        THEN DropInitial(pgs, advance(pgs, e.c), i + 1, drop_initial)
        ELSE e.c

\* QueryCursor.__init__ with _analyze_pagination_token.
QueryCursor(pgs, x) ==
    LET parts == Split(x, "@")
        c0 == [page |-> <<>>, have_eof |-> "None", i |-> -1, fetches |-> <<>>,
               pagination_token |-> IF ~Truthy(x) THEN NoToken ELSE parts[1]]
    IN  DropInitial(pgs, c0, 0, IF ~Truthy(x) THEN 0 ELSE DecInt(parts[2]))

\* PythonQueryIterator.__next__: status is "ok" with the element returned,
\* "StopIteration", or the error current raised.
__next__(pgs, c) ==
    LET e == eof(pgs, c)
        r == current(pgs, e.c)
    IN  IF e.ret THEN [c |-> e.c, status |-> "StopIteration", value |-> 0]
        ELSE IF r.status # "ok" THEN r
        ELSE [c |-> advance(pgs, r.c), status |-> "ok", value |-> r.value]

\* list(cursor): the elements a for loop over the cursor gets, until the
\* iterator stops or raises.
RECURSIVE Drain(_, _)
Drain(pgs, c) ==
    LET n == __next__(pgs, c)
    IN  IF n.status # "ok" THEN <<>> ELSE <<n.value>> \o Drain(pgs, n.c)

(***************************************************************************)
(* The lookup specification: a table with any descriptor, and calls of     *)
(* _determine_lookup (from get, batch_get, get_many, del_many) with key    *)
(* fragments of one or two fields.                                         *)
(***************************************************************************)
LookupFields == {"id", "x", "y"}

\* Key values of the lookup specification: an empty str and two others.
LookupValues == {Str(<<>>), Str(<<"a">>), Str(<<"b">>)}

\* The indexes a table may declare, and the lists of at most k of them.
LookupIndexes ==
    {Index(p, s, FALSE) : p \in LookupFields, s \in LookupFields \cup {None}} \
    {Index(p, p, FALSE) : p \in LookupFields}

RECURSIVE IndexLists(_)
IndexLists(k) ==
    IF k = 0 THEN {<<>>}
    ELSE LET shorter == IndexLists(k - 1)
         IN  shorter \cup {Append(l, ix) : l \in {m \in shorter : Len(m) = k - 1},
                                           ix \in LookupIndexes}

LookupTables ==
    {Table("t", pk, sk, ixs) : pk \in LookupFields, sk \in LookupFields \cup {None},
                              ixs \in IndexLists(MaxIndexes)} \
    {Table("t", pk, pk, ixs) : pk \in LookupFields, ixs \in IndexLists(MaxIndexes)}

\* Key fragments of one field, and of two different fields.
LookupFragments ==
    {<< <<f, v>> >> : f \in LookupFields, v \in LookupValues} \cup
    {<< <<fg[1], v>>, <<fg[2], w>> >> :
        fg \in {<<"id", "x">>, <<"id", "y">>, <<"x", "y">>},
        v \in LookupValues, w \in LookupValues}

NoLookup == [key_data |-> <<>>, many |-> FALSE, one_key |-> None, result |-> Raise(None, None)]
NoCursor == [page |-> <<>>, have_eof |-> "None", i |-> -1, fetches |-> <<>>,
             pagination_token |-> NoToken]
NoHist == [out |-> <<>>, counted |-> FALSE, op |-> "none", advances |-> 0]
NoLast == [op |-> "none", key |-> <<>>, reverse |-> FALSE, limit |-> NoLimit, token |-> NoToken,
           error |-> None, items |-> <<>>, next |-> NoToken, calls |-> <<>>,
           acc |-> <<>>, data |-> <<>>, changed |-> FALSE,
           shared |-> FALSE, position |-> <<>>]

InitLookup ==
    /\ Sequential
    /\ table \in LookupTables
    /\ lookup = NoLookup
    /\ pages = <<<<>>>>
    /\ cur = NoCursor
    /\ hist = NoHist
    /\ tables = <<>>
    /\ last = NoLast

\* A call of _determine_lookup; lookup holds the call and its result until
\* the caller is done with it (the function keeps no state of its own).
DetermineLookup ==
    /\ lookup = NoLookup
    /\ \E key_data \in LookupFragments, many \in BOOLEAN :
        \E one_key \in KeySet(key_data) :
            lookup' = [key_data |-> key_data, many |-> many, one_key |-> one_key,
                       result |-> _determine_lookup(table, key_data, many, one_key)]
    /\ UNCHANGED <<table, pages, cur, hist, tables, last, conc, frames>>

LookupDone ==
    /\ lookup # NoLookup
    /\ lookup' = NoLookup
    /\ UNCHANGED <<table, pages, cur, hist, tables, last, conc, frames>>

NextLookup == DetermineLookup \/ LookupDone

SpecLookup == InitLookup /\ [][NextLookup]_vars

(***************************************************************************)
(* The cursor specification: a backend holding any chain of pages (a page  *)
(* may be empty, also when it carries a token, as a remote query's page    *)
(* can be), and a caller that constructs cursors, with no token or with    *)
(* the token the cursor it has gives it, and accesses them in any order.   *)
(*   hist.out      the elements next() returned since construction         *)
(*   hist.counted  the cursor was constructed with no token and advanced   *)
(*                 only by next(), so out is all it has passed             *)
(*   hist.op       the last access                                         *)
(*   hist.advances the calls of advance() the stepping caller below made   *)
(***************************************************************************)
\* The records of a chain are numbered 1, 2, ... in order.
RECURSIVE ChainFrom(_, _)
ChainFrom(sizes, first) ==
    IF Len(sizes) = 0 THEN <<>>
    ELSE <<[k \in 1..sizes[1] |-> first + k - 1]>>
         \o ChainFrom(Tail(sizes), first + sizes[1])

PageChains ==
    UNION {{ChainFrom(sizes, 1) : sizes \in [1..n -> 0..MaxPageLen]} : n \in 1..MaxPages}

InitCursor ==
    /\ Sequential
    /\ pages \in PageChains
    /\ cur = NoCursor
    /\ hist = NoHist
    /\ table = Table("t", "id", None, <<>>)
    /\ lookup = NoLookup
    /\ tables = <<>>
    /\ last = NoLast

HaveCursor == hist.op # "none"

\* cursor = QueryCursor(x), with no token or with cursor.next_page_token of
\* the cursor the caller has.
NewCursor ==
    /\ \E x \in {NoToken} \cup (IF hist.op # "none"
                                 THEN {next_page_token(pages, cur).ret} ELSE {}) :
          /\ cur' = QueryCursor(pages, x)
          /\ hist' = [out |-> <<>>, counted |-> ~Truthy(x), op |-> "new", advances |-> 0]
    /\ UNCHANGED <<table, lookup, pages, tables, last, conc, frames>>

\* cursor.eof
Eof ==
    /\ HaveCursor
    /\ cur' = eof(pages, cur).c
    /\ hist' = [hist EXCEPT !.op = "eof"]
    /\ UNCHANGED <<table, lookup, pages, tables, last, conc, frames>>

\* cursor.current
Current ==
    /\ HaveCursor
    /\ cur' = current(pages, cur).c
    /\ hist' = [hist EXCEPT !.op = "current"]
    /\ UNCHANGED <<table, lookup, pages, tables, last, conc, frames>>

\* cursor.advance(); the index is kept within the model's bound.
Advance ==
    /\ HaveCursor
    /\ cur.i <= MaxPageLen
    /\ cur' = advance(pages, cur)
    /\ hist' = [hist EXCEPT !.op = "advance", !.counted = FALSE]
    /\ UNCHANGED <<table, lookup, pages, tables, last, conc, frames>>

\* cursor.next_page_token
NextPageToken ==
    /\ HaveCursor
    /\ LET r == next_page_token(pages, cur)
       IN  /\ cur' = r.c
           /\ hist' = [hist EXCEPT !.op = "next_page_token"]
    /\ UNCHANGED <<table, lookup, pages, tables, last, conc, frames>>

\* next(iter(cursor))
Next_ ==
    /\ HaveCursor
    /\ LET r == __next__(pages, cur)
       IN  /\ cur' = r.c
           /\ hist' = [hist EXCEPT !.op = "next",
                                   !.out = IF r.status = "ok" THEN Append(@, r.value) ELSE @]
    /\ UNCHANGED <<table, lookup, pages, tables, last, conc, frames>>

NextCursor == NewCursor \/ Eof \/ Current \/ Advance \/ NextPageToken \/ Next_

SpecCursor == InitCursor /\ [][NextCursor]_vars

\* A caller that constructs a cursor with no token and steps through it with
\* advance(), looking at eof and current in between or not.
FreshCursor ==
    /\ cur' = QueryCursor(pages, NoToken)
    /\ hist' = [out |-> <<>>, counted |-> FALSE, op |-> "new", advances |-> 0]
    /\ UNCHANGED <<table, lookup, pages, tables, last, conc, frames>>

\* cursor.advance(), counted; at most one call past the last record.
AdvanceOnce ==
    /\ HaveCursor
    /\ hist.advances <= MaxPages * MaxPageLen
    /\ cur' = advance(pages, cur)
    /\ hist' = [hist EXCEPT !.op = "advance", !.advances = @ + 1]
    /\ UNCHANGED <<table, lookup, pages, tables, last, conc, frames>>

NextSteps == FreshCursor \/ Eof \/ Current \/ AdvanceOnce

SpecSteps == InitCursor /\ [][NextSteps]_vars

(***************************************************************************)
(* The store specification: one Table over a LocalStorage, called by one   *)
(* client.  A call is one action; `last` holds the call made last, with    *)
(* its arguments and its outcome, until the client takes the result.       *)
(***************************************************************************)
StoreIds == {Str(<<"a">>), Str(<<"b">>)}
StoreSks == {Int_(1), Int_(2)}
\* The (x, y) attribute pairs of the records a client creates.
StoreAttrs == {<<Str(<<"p">>), Int_(1)>>, <<Str(<<"p">>), Int_(2)>>}

\* The tables: one with a sort key, an index with a sort key and a keys-only
\* index without; one without a sort key and with an index without.
StoreTables ==
    {Table("t", "id", "sk", <<Index("x", "y", FALSE), Index("y", None, TRUE)>>),
     Table("t", "id", None, <<Index("x", None, FALSE)>>)}

\* The complete records of a table, and data lacking a key field.
StoreRecords(t) ==
    IF t.sort_key # None
    THEN {[id |-> i, sk |-> s, x |-> a[1], y |-> a[2]] :
              i \in StoreIds, s \in StoreSks, a \in StoreAttrs}
    ELSE {[id |-> i, x |-> a[1], y |-> a[2]] : i \in StoreIds, a \in StoreAttrs}

StoreBadData == {[x |-> Str(<<"p">>)], [id |-> Str(<<"a">>), x |-> Str(<<"p">>)]}

\* The key fragments a client reads with.
StoreFragments ==
    {<<<<"id", Str(<<"a">>)>>>>, <<<<"id", Str(<<>>)>>>>,
     <<<<"x", Str(<<"p">>)>>>>, <<<<"x", Str(<<"q">>)>>>>,
     <<<<"y", Int_(1)>>>>, <<<<"sk", Int_(1)>>>>}
    \cup {<<<<"id", Str(<<"a">>)>>, <<"sk", Int_(1)>>>>,
          <<<<"id", Str(<<"a">>)>>, <<"sk", Int_(0)>>>>,
          <<<<"id", Str(<<"a">>)>>, <<"sk", Between(Int_(1), Int_(2))>>>>,
          <<<<"x", Str(<<"p">>)>>, <<"y", Int_(1)>>>>,
          <<<<"x", Str(<<"p">>)>>, <<"y", Between(Int_(1), Int_(2))>>>>,
          <<<<"x", Str(<<"p">>)>>, <<"id", Str(<<"a">>)>>>>}
    \cup {<<<<"id", Between(Str(<<"a">>), Str(<<"b">>))>>>>,
          <<<<"id", Between(Str(<<"a">>), Str(<<"b">>))>>, <<"sk", Int_(1)>>>>}

\* The keys a client updates and deletes by.
StoreKeys ==
    {<<<<"id", i>>, <<"sk", s>>>> : i \in StoreIds, s \in StoreSks \cup {Int_(0)}}
    \cup {<<<<"id", i>>>> : i \in StoreIds \cup {Str(<<>>)}}

StoreLimits == {NoLimit, 1, 2}

\* The keys a client reads in a batch.
BatchKeys ==
    {<<<<"id", Str(<<"a">>)>>, <<"sk", Int_(1)>>>>,
     <<<<"id", Str(<<"a">>)>>, <<"sk", Int_(0)>>>>,
     <<<<"id", Str(<<"a">>)>>>>}

StoreUpdates == {<<<<"y", Int_(1)>>>>}

\* The values a caller assigns to field y of a record it holds.
MutateValues == {Int_(1)}

Init ==
    /\ Sequential
    /\ table \in StoreTables
    /\ tables = <<>>
    /\ last = NoLast
    /\ lookup = NoLookup
    /\ pages = <<<<>>>>
    /\ cur = NoCursor
    /\ hist = NoHist

Idle == last.op = "none"

\* The record of a call: its arguments (data holds the data of create and
\* the updates of update), what it returned, the pages of the query so far
\* concatenated, and whether self.tables changed.
Called(op, key, reverse, limit, token, r, acc, data) ==
    [op |-> op, key |-> key, reverse |-> reverse, limit |-> limit, token |-> token,
     error |-> r.error, items |-> r.items, next |-> r.next_page_token,
     calls |-> r.calls, acc |-> acc, data |-> data, changed |-> r.tables # tables,
     shared |-> r.shared, position |-> r.position]

Get ==
    /\ Idle
    /\ \E key \in StoreFragments : \E one_key \in KeySet(key) :
           LET r == get(table, tables, key, one_key)
           IN  /\ last' = Called("get", key, FALSE, NoLimit, NoToken, r, <<>>, <<>>)
               /\ tables' = r.tables
    /\ UNCHANGED <<table, lookup, pages, cur, hist, conc, frames>>

\* The first page of a query.
GetMany ==
    /\ Idle
    /\ \E key \in StoreFragments, reverse \in BOOLEAN, limit \in StoreLimits :
       \E one_key \in KeySet(key) :
           LET r == get_many(table, tables, key, reverse, limit, NoToken, one_key)
           IN  /\ last' = Called("get_many", key, reverse, limit, NoToken, r, r.items, <<>>)
               /\ tables' = r.tables
    /\ UNCHANGED <<table, lookup, pages, cur, hist, conc, frames>>

\* The next page of the query, by the token of the page before.
GetManyNext ==
    /\ last.op = "get_many"
    /\ last.next # NoToken
    /\ \E one_key \in KeySet(last.key) :
           LET r == get_many(table, tables, last.key, last.reverse, last.limit,
                             last.next, one_key)
           IN  /\ last' = Called("get_many", last.key, last.reverse, last.limit,
                                 last.next, r, last.acc \o r.items, <<>>)
               /\ tables' = r.tables
    /\ UNCHANGED <<table, lookup, pages, cur, hist, conc, frames>>

BatchGet ==
    /\ Idle
    /\ \E k1 \in BatchKeys, k2 \in BatchKeys, n \in 0..2 :
       \E o1 \in KeySet(k1), o2 \in KeySet(k2) :
           LET keys == SubSeq(<<k1, k2>>, 1, n)
               r    == batch_get(table, tables, keys, <<o1, o2>>)
           IN  /\ n < 2 => k2 = k1
               /\ last' = Called("batch_get", keys, FALSE, NoLimit, NoToken, r, <<>>, <<>>)
               /\ tables' = r.tables
    /\ UNCHANGED <<table, lookup, pages, cur, hist, conc, frames>>

Create ==
    /\ Idle
    /\ \E data \in StoreRecords(table) \cup StoreBadData :
           LET r == create(table, tables, data)
           IN  /\ Len(Records(r.tables, table.table_name)) <= MaxRecords
               /\ last' = Called("create", <<>>, FALSE, NoLimit, NoToken, r, <<>>, data)
               /\ tables' = r.tables
    /\ UNCHANGED <<table, lookup, pages, cur, hist, conc, frames>>

Update ==
    /\ Idle
    /\ \E key \in StoreKeys, updates \in StoreUpdates :
           LET r == update_(table, tables, key, updates)
           IN  /\ Len(Records(r.tables, table.table_name)) <= MaxRecords
               /\ last' = Called("update", key, FALSE, NoLimit, NoToken, r, <<>>, updates)
               /\ tables' = r.tables
    /\ UNCHANGED <<table, lookup, pages, cur, hist, conc, frames>>

Delete ==
    /\ Idle
    /\ \E key \in StoreKeys :
           LET r == delete_(table, tables, key)
           IN  /\ last' = Called("delete", key, FALSE, NoLimit, NoToken, r, <<>>, <<>>)
               /\ tables' = r.tables
    /\ UNCHANGED <<table, lookup, pages, cur, hist, conc, frames>>

\* The first page of a scan.
Scan ==
    /\ Idle
    /\ \E limit \in StoreLimits :
           LET r == scan_(table, tables, limit, NoToken)
           IN  /\ last' = Called("scan", <<>>, FALSE, limit, NoToken, r, r.items, <<>>)
               /\ tables' = r.tables
    /\ UNCHANGED <<table, lookup, pages, cur, hist, conc, frames>>

\* The next page of the scan, by the token of the page before.
ScanNext ==
    /\ last.op = "scan"
    /\ last.next # NoToken
    /\ LET r == scan_(table, tables, last.limit, last.next)
       IN  /\ last' = Called("scan", <<>>, FALSE, last.limit, last.next, r,
                             last.acc \o r.items, <<>>)
           /\ tables' = r.tables
    /\ UNCHANGED <<table, lookup, pages, cur, hist, conc, frames>>

ItemCount ==
    /\ Idle
    /\ last' = [NoLast EXCEPT !.op = "item_count",
                              !.items = <<Int_(item_count_(table, tables))>>]
    /\ UNCHANGED <<table, lookup, pages, cur, hist, tables, conc, frames>>

\* self.tables once the caller has assigned value to field name of the n-th
\* record a call gave it: the assignment reaches the stored dict if the
\* record is that dict, which is then the one stored record equal to it.
Assigned(tbls, table_name, item, shared, name, value) ==
    IF ~shared THEN tbls
    ELSE SetRecords(tbls, table_name,
                    [n \in 1..Len(Records(tbls, table_name)) |->
                        IF Records(tbls, table_name)[n] = item
                        THEN [f \in DOMAIN item \cup {name} |->
                                 IF f = name THEN value ELSE item[f]]
                        ELSE Records(tbls, table_name)[n]])

\* The caller changes a field of a record that the call before returned or,
\* for create, was given: record[name] = value in the caller's code.
Mutate ==
    /\ last.op \in {"get", "get_many", "scan", "create", "update"}
    /\ last.error = None
    /\ \E n \in 1..Len(last.items) : \E value \in MutateValues :
           /\ tables' = Assigned(tables, table.table_name, last.items[n], last.shared,
                                 "y", value)
           /\ last' = [NoLast EXCEPT !.op = "mutate", !.items = <<last.items[n]>>,
                                     !.changed = (tables' # tables)]
    /\ UNCHANGED <<table, lookup, pages, cur, hist, conc, frames>>

\* The client takes the result of the call.
Return ==
    /\ ~Idle
    /\ last' = NoLast
    /\ UNCHANGED <<table, lookup, pages, cur, hist, tables, conc, frames>>

Next ==
    \/ Get
    \/ GetMany
    \/ GetManyNext
    \/ BatchGet
    \/ Create
    \/ Update
    \/ Delete
    \/ Scan
    \/ ScanNext
    \/ ItemCount
    \/ Mutate
    \/ Return

Spec == Init /\ [][Next]_vars

(***************************************************************************)
(* The pages of the local engine: the tables of Spec, filled by create and *)
(* emptied by delete, read by valid fragments page by page.                *)
(***************************************************************************)
\* The fragments: the table partition key, an index partition key, the key
\* of the keys-only index, and conditions on the table and index sort keys.
PageFragments ==
    {<<<<"id", Str(<<"a">>)>>>>, <<<<"x", Str(<<"p">>)>>>>, <<<<"y", Int_(1)>>>>,
     <<<<"id", Str(<<"a">>)>>, <<"sk", Between(Int_(1), Int_(2))>>>>,
     <<<<"x", Str(<<"p">>)>>, <<"y", Between(Int_(1), Int_(2))>>>>}

PageLimits == {1, 2}

GetOne ==
    /\ Idle
    /\ \E key \in PageFragments : \E one_key \in KeySet(key) :
           LET r == get(table, tables, key, one_key)
           IN  /\ last' = Called("get", key, FALSE, NoLimit, NoToken, r, <<>>, <<>>)
               /\ tables' = r.tables
    /\ UNCHANGED <<table, lookup, pages, cur, hist, conc, frames>>

\* The first page of a query with a limit.
GetPage ==
    /\ Idle
    /\ \E key \in PageFragments, reverse \in BOOLEAN, limit \in PageLimits :
       \E one_key \in KeySet(key) :
           LET r == get_many(table, tables, key, reverse, limit, NoToken, one_key)
           IN  /\ last' = Called("get_many", key, reverse, limit, NoToken, r, r.items, <<>>)
               /\ tables' = r.tables
    /\ UNCHANGED <<table, lookup, pages, cur, hist, conc, frames>>

NextPages ==
    \/ Create
    \/ Delete
    \/ GetOne
    \/ GetPage
    \/ GetManyNext
    \/ Scan
    \/ ScanNext
    \/ Return

SpecPages == Init /\ [][NextPages]_vars

(***************************************************************************)
(* The writes of a table on LocalStorage: put, update with plain values,   *)
(* None and DynamoIncrement, and delete, on a table with a sort key.       *)
(* hist.op becomes "failed" once a call has raised.                        *)
(***************************************************************************)
WriteTable == Table("t", "id", "sk", <<>>)

\* The data a client puts: complete records, one with an empty partition
\* key value and one without partition key.
WriteData ==
    {[id |-> Str(<<"a">>), sk |-> s, v |-> Str(<<"p">>)] : s \in StoreSks}
    \cup {[id |-> Str(<<>>), sk |-> Int_(1)], [sk |-> Int_(1)]}

\* The keys a client updates, deletes and reads by.
WriteKeys ==
    {<<<<"id", Str(<<"a">>)>>, <<"sk", s>>>> : s \in StoreSks}
    \cup {<<<<"id", Str(<<"a">>)>>>>, <<<<"id", Str(<<>>)>>, <<"sk", Int_(1)>>>>}

\* The updates mappings.
WriteUpdates ==
    {<<<<"v", Int_(2)>>>>, <<<<"v", NoneValue>>>>, <<<<"v", DynamoIncrement(1)>>>>,
     <<<<"sk", NoneValue>>>>,
     <<<<"sk", Int_(2)>>, <<"v", DynamoIncrement(1)>>>>}

\* The numbers in the fields and the lengths of the lists stay within MaxValue.
Bounded(records) ==
    \A n \in 1..Len(records) : \A f \in DOMAIN records[n] :
        /\ records[n][f][1] = "int" => records[n][f][2] <= MaxValue
        /\ records[n][f][1] = "list" => Len(records[n][f][2]) <= MaxValue

InitWrites ==
    /\ Sequential
    /\ table = WriteTable
    /\ tables = <<>>
    /\ last = NoLast
    /\ lookup = NoLookup
    /\ pages = <<<<>>>>
    /\ cur = NoCursor
    /\ hist = NoHist

Noted(r) == IF r.error # None THEN [hist EXCEPT !.op = "failed"] ELSE hist

\* Table.put, the alias of create.
Put ==
    /\ Idle
    /\ \E data \in WriteData :
           LET r == create(table, tables, data)
           IN  /\ Len(Records(r.tables, table.table_name)) <= MaxWrites
               /\ last' = Called("put", <<>>, FALSE, NoLimit, NoToken, r, <<>>, data)
               /\ tables' = r.tables
               /\ hist' = Noted(r)
    /\ UNCHANGED <<table, lookup, pages, cur, conc, frames>>

UpdateWith ==
    /\ Idle
    /\ \E key \in WriteKeys, updates \in WriteUpdates :
           LET r == update_(table, tables, key, updates)
           IN  /\ Len(Records(r.tables, table.table_name)) <= MaxWrites
               /\ Bounded(Records(r.tables, table.table_name))
               /\ last' = Called("update", key, FALSE, NoLimit, NoToken, r, <<>>, updates)
               /\ tables' = r.tables
               /\ hist' = Noted(r)
    /\ UNCHANGED <<table, lookup, pages, cur, conc, frames>>

DeleteKey ==
    /\ Idle
    /\ \E key \in WriteKeys :
           LET r == delete_(table, tables, key)
           IN  /\ last' = Called("delete", key, FALSE, NoLimit, NoToken, r, <<>>, <<>>)
               /\ tables' = r.tables
               /\ hist' = Noted(r)
    /\ UNCHANGED <<table, lookup, pages, cur, conc, frames>>

GetKey ==
    /\ Idle
    /\ \E key \in WriteKeys : \E one_key \in KeySet(key) :
           LET r == get(table, tables, key, one_key)
           IN  /\ last' = Called("get", key, FALSE, NoLimit, NoToken, r, <<>>, <<>>)
               /\ tables' = r.tables
               /\ hist' = Noted(r)
    /\ UNCHANGED <<table, lookup, pages, cur, conc, frames>>

NextWrites ==
    \/ Put
    \/ UpdateWith
    \/ DeleteKey
    \/ GetKey
    \/ ItemCount
    \/ Return

SpecWrites == InitWrites /\ [][NextWrites]_vars

(***************************************************************************)
(* Threads calling one LocalStorage at once.  Every method but get_item,   *)
(* batch_get_item and query_index is wrapped by lock.synchronized          *)
(* (_synchronized.py:8-14): the wrapper waits for the lock, runs the body  *)
(* and releases the lock when the body is left.  A thread makes one call;  *)
(* the body of update is taken statement by statement, the other bodies    *)
(* in one step.  Under the lock the list cannot change between the steps   *)
(* of update, so the index names the same dict throughout.                 *)
(***************************************************************************)
Threads == 1..MaxThreads

ConcTable == Table("t", "id", None, <<>>)
ConcKey == <<<<"id", Str(<<"a">>)>>>>
ConcData == [id |-> Str(<<"a">>), v |-> Int_(1)]
\* The deltas of the DynamoIncrement updates of field v.
Deltas == {1, -1}
ConcOps == {"update", "put", "delete", "query", "scan", "item_count"}
Mutating == {"update", "put", "delete"}

\* A thread that has made no call.
NoCall == [pc |-> "idle", op |-> "none", delta |-> 0, index |-> 0, tmp |-> 0,
           ret |-> <<>>, base |-> <<>>]

\* A lock whose acquire never blocks, and one that acquire does not hold.
Free_Always(l) == TRUE
Acquired_NotHeld(l) == l

\* threading.Lock: acquire blocks while the lock is held, then holds it.
Free(l) == l = FALSE
Acquired(l) == TRUE

InitConc ==
    /\ table = ConcTable
    /\ tables \in {<<>>, [t |-> <<ConcData>>]}
    /\ initial = tables
    /\ committed = tables
    /\ lock = FALSE
    /\ threads = [t \in Threads |-> NoCall]
    /\ NoFrames
    /\ last = NoLast
    /\ lookup = NoLookup
    /\ pages = <<<<>>>>
    /\ cur = NoCursor
    /\ hist = NoHist

single == <<table, lookup, pages, cur, hist, last, frames>>

\* The thread calls a method and arrives at 'with self.lock'.
Call(t) ==
    /\ threads[t].pc = "idle"
    /\ \E op \in ConcOps : \E delta \in (IF op = "update" THEN Deltas ELSE {0}) :
           threads' = [threads EXCEPT ![t] = [NoCall EXCEPT !.pc = "wait", !.op = op,
                                                           !.delta = delta]]
    /\ UNCHANGED <<single, tables, lock, committed, initial>>

\* with self.lock: entered once the lock is free.
Acquire(t) ==
    /\ threads[t].pc = "wait"
    /\ Free(lock)
    /\ lock' = Acquired(lock)
    /\ threads' = [threads EXCEPT ![t].pc = "body"]
    /\ UNCHANGED <<single, tables, committed, initial>>

\* update: records = setdefault(...); index = _find_index(records, key); the
\* key is appended if there is no record of it.
UpdateFind(t) ==
    /\ threads[t].pc = "body" /\ threads[t].op = "update"
    /\ LET records == Records(tables, table.table_name)
           found   == _find_index(records, ConcKey)
       IN  /\ tables' = SetRecords(tables, table.table_name,
                                   IF found = 0 THEN Append(records, KeyRecord(ConcKey))
                                   ELSE records)
           /\ threads' = [threads EXCEPT ![t].pc = "read",
                                         ![t].index = IF found = 0 THEN Len(records) + 1
                                                      ELSE found]
    /\ UNCHANGED <<single, lock, committed, initial>>

\* The record a thread holds, by its index in the list.
RecordAt(tbls, index) ==
    IF index \in 1..Len(Records(tbls, table.table_name))
    THEN Records(tbls, table.table_name)[index]
    ELSE KeyRecord(ConcKey)

\* DynamoIncrement.apply_in_memory, the right-hand side: record.get(name, 0)
UpdateRead(t) ==
    /\ threads[t].pc = "read"
    /\ threads' = [threads EXCEPT ![t].pc = "write",
                                  ![t].tmp = IF "v" \in DOMAIN RecordAt(tables, threads[t].index)
                                             THEN RecordAt(tables, threads[t].index)["v"][2]
                                             ELSE 0]
    /\ UNCHANGED <<single, tables, lock, committed, initial>>

\* DynamoIncrement.apply_in_memory, the assignment: record[name] = ... + delta
UpdateWrite(t) ==
    /\ threads[t].pc = "write"
    /\ tables' = IF threads[t].index \in 1..Len(Records(tables, table.table_name))
                 THEN SetRecords(tables, table.table_name,
                                 [Records(tables, table.table_name) EXCEPT
                                     ![threads[t].index] =
                                         Assign(@, "v", Int_(threads[t].tmp + threads[t].delta))])
                 ELSE tables
    /\ threads' = [threads EXCEPT ![t].pc = "copy"]
    /\ UNCHANGED <<single, lock, committed, initial>>

\* return record.copy()
UpdateCopy(t) ==
    /\ threads[t].pc = "copy"
    /\ threads' = [threads EXCEPT ![t].pc = "return",
                                  ![t].ret = <<RecordAt(tables, threads[t].index)>>]
    /\ UNCHANGED <<single, tables, lock, committed, initial>>

\* What query, scan and item_count return on the tables tbls.
ReadOf(op, tbls) ==
    IF op = "query"
    THEN query(tbls, table.table_name, ConcKey, None, FALSE, NoLimit, <<>>).items
    ELSE IF op = "scan" THEN scan(tbls, table.table_name, NoLimit, <<>>).items
    ELSE <<Int_(item_count(tbls, table.table_name))>>

\* The body of query, scan or item_count; base notes the tables as the last
\* mutating call that returned left them.
ReadBody(t) ==
    /\ threads[t].pc = "body" /\ threads[t].op \in ConcOps \ Mutating
    /\ threads' = [threads EXCEPT ![t].pc = "return",
                                  ![t].ret = ReadOf(threads[t].op, tables),
                                  ![t].base = committed]
    /\ UNCHANGED <<single, tables, lock, committed, initial>>

PutBody(t) ==
    /\ threads[t].pc = "body" /\ threads[t].op = "put"
    /\ tables' = put(tables, table.table_name, ConcKey, ConcData)
    /\ threads' = [threads EXCEPT ![t].pc = "return"]
    /\ UNCHANGED <<single, lock, committed, initial>>

DeleteBody(t) ==
    /\ threads[t].pc = "body" /\ threads[t].op = "delete"
    /\ tables' = delete(tables, table.table_name, ConcKey).tables
    /\ threads' = [threads EXCEPT ![t].pc = "return",
                                  ![t].ret = delete(tables, table.table_name, ConcKey).ret]
    /\ UNCHANGED <<single, lock, committed, initial>>

\* The with block is left: the lock is released and the call returns.
Exit(t) ==
    /\ threads[t].pc = "return"
    /\ lock' = FALSE
    /\ threads' = [threads EXCEPT ![t].pc = "done"]
    /\ committed' = IF threads[t].op \in Mutating THEN tables ELSE committed
    /\ UNCHANGED <<single, tables, initial>>

NextConc ==
    \E t \in Threads :
        \/ Call(t)
        \/ Acquire(t)
        \/ UpdateFind(t)
        \/ UpdateRead(t)
        \/ UpdateWrite(t)
        \/ UpdateCopy(t)
        \/ ReadBody(t)
        \/ PutBody(t)
        \/ DeleteBody(t)
        \/ Exit(t)

SpecConc == InitConc /\ [][NextConc]_vars

(***************************************************************************)
(* The lock of the local engine, call by call.  A caller calls a method of *)
(* LocalStorage again and again; get_item, batch_get_item and query_index  *)
(* are not wrapped and call query, which is; a body may raise, and the     *)
(* with block of the wrapper (_synchronized.py:11-12) is left either way.  *)
(* A caller's record holds the method it called (op), the method it is in  *)
(* or arrives at (method), whether its arguments are the ones that can     *)
(* make the body raise (bad), the keys batch_get_item has left, whether    *)
(* it holds the lock, and the error its body raised.                       *)
(***************************************************************************)
MaxCallers == 2     \* threads calling the local engine again and again

Callers == 1..MaxCallers

LockOps == {"get_item", "batch_get_item", "query_index", "query", "put", "update", "delete",
            "item_count", "scan"}

\* The methods whose arguments may make the body raise.
Raising == {"get_item", "batch_get_item", "query_index", "query", "update"}

\* A wrapper that is put around every method.
Synchronized_All(method) == TRUE

\* The methods decorated with @lock.synchronized (local_storage.py:45, 108,
\* 116, 140, 150, 154): all but get_item, batch_get_item and query_index.
Synchronized(method) == method \notin {"get_item", "batch_get_item", "query_index"}

\* The method a method without wrapper calls: batch_get_item calls get_item
\* for every key, get_item and query_index call query.
Callee(method) == IF method = "batch_get_item" THEN "get_item" ELSE "query"

\* Where a call of a method starts: at the with statement of its wrapper,
\* or in its body.
Arrive(method) == IF Synchronized(method) THEN "wait" ELSE "body"

\* The arguments of the calls: the key, the sort key query is given, the
\* keys of a batch and the updates.
LockKey(bad) ==
    IF bad THEN ConcKey \o <<<<"w", Between(Int_(1), Int_(2))>>>> ELSE ConcKey
LockSortKey(op, bad) == IF bad /\ op \in {"query", "query_index"} THEN "sk" ELSE None
LockBatch == <<ConcKey, ConcKey>>
LockUpdates(bad) ==
    IF bad THEN <<<<"id", DynamoAddToList(<<Str(<<"q">>)>>)>>>> ELSE <<<<"v", Int_(1)>>>>

\* A caller that is in no call.
NoCaller == [pc |-> "idle", op |-> "none", method |-> "none", bad |-> FALSE, left |-> 0,
             holds |-> FALSE, error |-> None]

InitLock ==
    /\ table = ConcTable
    /\ tables \in {<<>>, [t |-> <<ConcData>>]}
    /\ initial = <<>>
    /\ committed = <<>>
    /\ lock = FALSE
    /\ threads = [t \in Callers |-> NoCaller]
    /\ NoFrames
    /\ last = NoLast
    /\ lookup = NoLookup
    /\ pages = <<<<>>>>
    /\ cur = NoCursor
    /\ hist = NoHist

unlocked == <<single, committed, initial>>

\* The caller calls a method.
LockCall(t) ==
    /\ threads[t].pc = "idle"
    /\ \E op \in LockOps : \E bad \in (IF op \in Raising THEN BOOLEAN ELSE {FALSE}) :
           threads' = [threads EXCEPT ![t] =
                           [NoCaller EXCEPT !.pc = Arrive(op), !.op = op, !.method = op,
                                            !.bad = bad,
                                            !.left = IF op = "batch_get_item"
                                                     THEN Len(LockBatch) ELSE 0]]
    /\ UNCHANGED <<unlocked, tables, lock>>

\* with self.lock: entered once the lock is free.
LockAcquire(t) ==
    /\ threads[t].pc = "wait"
    /\ Free(lock)
    /\ lock' = Acquired(lock)
    /\ threads' = [threads EXCEPT ![t].pc = "body", ![t].holds = TRUE]
    /\ UNCHANGED <<unlocked, tables>>

\* The body of get_item, batch_get_item or query_index calls the next method.
LockNested(t) ==
    /\ threads[t].pc = "body"
    /\ threads[t].method \in {"get_item", "batch_get_item", "query_index"}
    /\ threads' = [threads EXCEPT ![t].method = Callee(threads[t].method),
                                  ![t].pc = Arrive(Callee(threads[t].method))]
    /\ UNCHANGED <<unlocked, tables, lock>>

\* The body of query, which raises or returns.
LockQuery(t) ==
    /\ threads[t].pc = "body" /\ threads[t].method = "query"
    /\ threads' = [threads EXCEPT
                       ![t].pc = "leave",
                       ![t].error = query(tables, table.table_name, LockKey(threads[t].bad),
                                          LockSortKey(threads[t].op, threads[t].bad),
                                          FALSE, NoLimit, <<>>).error]
    /\ UNCHANGED <<unlocked, tables, lock>>

\* The bodies of item_count and scan.
LockRead(t) ==
    /\ threads[t].pc = "body" /\ threads[t].method \in {"item_count", "scan"}
    /\ threads' = [threads EXCEPT ![t].pc = "leave"]
    /\ UNCHANGED <<unlocked, tables, lock>>

\* The body of update, which changes the record in place until it raises.
LockUpdate(t) ==
    /\ threads[t].pc = "body" /\ threads[t].method = "update"
    /\ tables' = update(tables, table.table_name, ConcKey, LockUpdates(threads[t].bad)).tables
    /\ threads' = [threads EXCEPT
                       ![t].pc = "leave",
                       ![t].error = update(tables, table.table_name, ConcKey,
                                           LockUpdates(threads[t].bad)).error]
    /\ UNCHANGED <<unlocked, lock>>

LockPut(t) ==
    /\ threads[t].pc = "body" /\ threads[t].method = "put"
    /\ tables' = put(tables, table.table_name, ConcKey, ConcData)
    /\ threads' = [threads EXCEPT ![t].pc = "leave"]
    /\ UNCHANGED <<unlocked, lock>>

LockDelete(t) ==
    /\ threads[t].pc = "body" /\ threads[t].method = "delete"
    /\ tables' = delete(tables, table.table_name, ConcKey).tables
    /\ threads' = [threads EXCEPT ![t].pc = "leave"]
    /\ UNCHANGED <<unlocked, lock>>

\* The caller once the method it is in is left: batch_get_item goes on with
\* its next key if nothing was raised, every other call is over.
Left(c) ==
    IF c.op = "batch_get_item" /\ c.error = None /\ c.left > 1
    THEN [c EXCEPT !.pc = Arrive("get_item"), !.method = "get_item", !.left = c.left - 1,
                   !.holds = FALSE]
    ELSE NoCaller

\* The with block is left, by return or by an exception: the lock is
\* released and the result or the exception goes to the calling method.
LockExit(t) ==
    /\ threads[t].pc = "leave"
    /\ lock' = IF Synchronized(threads[t].method) THEN FALSE ELSE lock
    /\ threads' = [threads EXCEPT ![t] = Left(threads[t])]
    /\ UNCHANGED <<unlocked, tables>>

\* The steps a caller takes by itself once it is in a call.
LockStep(t) ==
    \/ LockNested(t)
    \/ LockQuery(t)
    \/ LockRead(t)
    \/ LockUpdate(t)
    \/ LockPut(t)
    \/ LockDelete(t)
    \/ LockExit(t)

NextLock ==
    \E t \in Callers :
        \/ LockCall(t)
        \/ LockAcquire(t)
        \/ LockNested(t)
        \/ LockQuery(t)
        \/ LockRead(t)
        \/ LockUpdate(t)
        \/ LockPut(t)
        \/ LockDelete(t)
        \/ LockExit(t)

SpecLock == InitLock /\ [][NextLock]_vars

\* Fair scheduling: a caller in a call that can take a step takes one, and a
\* caller waiting for a lock that is free again and again gets it.
SpecLockFair ==
    /\ SpecLock
    /\ \A t \in Callers : WF_vars(LockStep(t)) /\ SF_vars(LockAcquire(t))

(***************************************************************************)
(* AwsDynamoStorage.batch_get_item (storage/aws_storage.py:31-73) and the  *)
(* ExponentialBackoff it sleeps with (_private/backoff.py).  batch is the  *)
(* frame of one call: the arguments keys_map (id -> key, in the order of   *)
(* the ids) and table_key_names, the locals key_to_ids, to_query,          *)
(* next_query, ret and backoff, where the call is (pc), the keys of the    *)
(* request in flight (sent), the keys the last response left unprocessed   *)
(* (unresolved), the error raised and the delays taken (slept); db is the remote table, the item stored under each key, both  *)
(* as they travel.                                                         *)
(***************************************************************************)
\* The most keys one request carries (aws_storage.py:53).
ChunkSize == 100

\* ExponentialBackoff().time, 0.05 seconds, in hundredths of a second.
InitialTime == 5
ExponentialBackoff == [time |-> InitialTime]

\* TypeSerializer.serialize and TypeDeserializer.deserialize with
\* replace_decimals, of a number and of a str: a number travels as the text
\* of its digits.
Serialize(v) == IF v[1] = "int" THEN <<"N", DecStr(v[2])>> ELSE <<"S", v[2]>>
Deserialize(w) == IF w[1] = "N" THEN Int_(DecInt(w[2])) ELSE Str(w[2])
_encode(data) == [f \in DOMAIN data |-> Serialize(data[f])]
_decode(data) == [f \in DOMAIN data |-> Deserialize(data[f])]

\* immutable_key(record): the frozenset of the items of the key fields.
immutable_key(record, table_key_names) ==
    {<<table_key_names[n], record[table_key_names[n]]>> : n \in 1..Len(table_key_names)}

\* The loop over keys_map.items() (aws_storage.py:40-46), from entry n on:
\* q holds key_to_ids, a function from immutable keys to lists of ids, and
\* to_query.
RECURSIVE Queued(_, _, _, _)
Queued(keys_map, table_key_names, n, q) ==
    IF n > Len(keys_map) THEN q
    ELSE IF immutable_key(keys_map[n][2], table_key_names) \in DOMAIN q.key_to_ids
    THEN Queued(keys_map, table_key_names, n + 1,
                [q EXCEPT !.key_to_ids[immutable_key(keys_map[n][2], table_key_names)] =
                              Append(@, keys_map[n][1])])
    ELSE Queued(keys_map, table_key_names, n + 1,
                [key_to_ids |->
                     [k \in DOMAIN q.key_to_ids
                               \cup {immutable_key(keys_map[n][2], table_key_names)} |->
                         IF k \in DOMAIN q.key_to_ids THEN q.key_to_ids[k]
                         ELSE <<keys_map[n][1]>>],
                 to_query |-> Append(q.to_query, _encode(keys_map[n][2]))])

\* min(100 - len(next_query), len(to_query))
to_eat(b) ==
    IF ChunkSize - Len(b.next_query) < Len(b.to_query)
    THEN ChunkSize - Len(b.next_query) ELSE Len(b.to_query)

\* fill_er_up (aws_storage.py:51-55)
fill_er_up(b) ==
    [b EXCEPT !.next_query = @ \o SubSeq(b.to_query, 1, to_eat(b)),
              !.to_query = SubSeq(@, to_eat(b) + 1, Len(@))]

\* random.randint(0, self.time) of a float that is no whole number raises:
\* ValueError up to Python 3.11, TypeError from 3.12 on, where it raises of
\* every float.
Integral(time) == time % 100 = 0
RandintErrors == {"ValueError", "TypeError"}

\* ExponentialBackoff.sleep (backoff.py:11-13), raised being the error of
\* the interpreter at hand: the bound is doubled after the delay.
sleep(backoff, raised) ==
    IF ~Integral(backoff.time) \/ raised = "TypeError"
    THEN [backoff |-> backoff, error |-> raised, slept |-> 0]
    ELSE [backoff |-> [time |-> 2 * backoff.time], error |-> None, slept |-> 1]

\* ExponentialBackoff.sleep_when (backoff.py:15-17)
sleep_when(backoff, condition, raised) ==
    IF condition THEN sleep(backoff, raised)
    ELSE [backoff |-> backoff, error |-> None, slept |-> 0]

\* The ids a record of the response is stored under: key_to_ids is a
\* defaultdict, an unknown key has no ids.
IdsOf(b, record) ==
    IF immutable_key(record, b.table_key_names) \in DOMAIN b.key_to_ids
    THEN {b.key_to_ids[immutable_key(record, b.table_key_names)][n] :
              n \in 1..Len(b.key_to_ids[immutable_key(record, b.table_key_names)])}
    ELSE {}

\* The rows of the response to a request of which the keys in processed
\* were processed: the items the remote table holds for them.
Responses(b, processed) ==
    {b.db[processed[n]] : n \in {m \in 1..Len(processed) : processed[m] \in DOMAIN b.db}}

\* ret[id] = record for the ids of every row (aws_storage.py:63-66); ret is
\* the set of its <<id, record>> items.
Stored(ret, items) == {i \in ret : i[1] \notin {j[1] : j \in items}} \cup items
ItemsOf(b, rows) == UNION {{<<id, _decode(row)>> : id \in IdsOf(b, _decode(row))} : row \in rows}

\* aws_storage.py:63-69: every row is decoded and stored under the ids of
\* its key, and the unprocessed keys are the next request.
Received(b, rows, unprocessed) ==
    [b EXCEPT !.ret = Stored(@, ItemsOf(b, rows)),
              !.next_query = unprocessed,
              !.unresolved = unprocessed,
              !.sent = <<>>]

\* aws_storage.py:70-71: the delay, which may raise, and the next fill.
Delayed(b, s) ==
    IF s.error # None THEN [b EXCEPT !.pc = "raised", !.error = s.error]
    ELSE fill_er_up([b EXCEPT !.backoff = s.backoff, !.slept = @ + s.slept, !.pc = "loop"])

\* The keys maps: n ids, each with its own key, or the first two with the
\* same key; and the remote tables: every key stored, every other, none.
BatchSizes == (0..MaxBatch) \cup (ChunkSize..(ChunkSize + MaxBatch))
BatchMap(n, same) ==
    [i \in 1..n |-> <<i, [id |-> Int_(IF same /\ i > 1 THEN i - 1 ELSE i)]>>]
BatchStores(n) ==
    {[k \in {_encode([id |-> Int_(j)]) : j \in ks} |->
          _encode([id |-> _decode(k).id, v |-> Str(<<"r">>)])] :
         ks \in {1..n, {j \in 1..n : j % 2 = 1}, {}}}

\* The call before its first statement.
BatchCall(keys_map, db) ==
    [pc |-> "call", db |-> db, keys_map |-> keys_map, table_key_names |-> <<"id">>,
     key_to_ids |-> <<>>, to_query |-> <<>>, next_query |-> <<>>, ret |-> {},
     backoff |-> ExponentialBackoff, sent |-> <<>>, unresolved |-> <<>>,
     error |-> None, slept |-> 0]

InitBatch ==
    /\ Unthreaded
    /\ \E n \in BatchSizes, same \in BOOLEAN : \E db \in BatchStores(n) :
           batch = BatchCall(BatchMap(n, same), db)
    /\ delmany = <<>>
    /\ remote = <<>>
    /\ table = Table("t", "id", None, <<>>)
    /\ tables = <<>>
    /\ last = NoLast
    /\ lookup = NoLookup
    /\ pages = <<<<>>>>
    /\ cur = NoCursor
    /\ hist = NoHist

rest == <<table, lookup, pages, cur, hist, tables, last, conc, delmany, remote>>

\* aws_storage.py:33-58: the queue without duplicates, the first fill.
BatchStart ==
    /\ batch.pc = "call"
    /\ batch' = fill_er_up([batch EXCEPT
                     !.key_to_ids = Queued(batch.keys_map, batch.table_key_names, 1,
                                           [key_to_ids |-> <<>>, to_query |-> <<>>]).key_to_ids,
                     !.to_query = Queued(batch.keys_map, batch.table_key_names, 1,
                                         [key_to_ids |-> <<>>, to_query |-> <<>>]).to_query,
                     !.pc = "loop"])
    /\ UNCHANGED rest

\* aws_storage.py:59-62: next_query is not empty and is sent.
BatchRequest ==
    /\ batch.pc = "loop"
    /\ batch.next_query # <<>>
    /\ batch' = [batch EXCEPT !.pc = "wait", !.sent = batch.next_query]
    /\ UNCHANGED rest

\* Where the unprocessed keys of a response start in the keys sent: all
\* are unprocessed, the second half, the last, none.
Unprocessed(sent) == {1, (Len(sent) \div 2) + 1, Len(sent), Len(sent) + 1}

\* aws_storage.py:63-71: the response arrives.
BatchRespond ==
    /\ batch.pc = "wait"
    /\ \E from \in Unprocessed(batch.sent), raised \in RandintErrors :
           batch' = Delayed(Received(batch,
                                     Responses(batch, SubSeq(batch.sent, 1, from - 1)),
                                     SubSeq(batch.sent, from, Len(batch.sent))),
                            sleep_when(batch.backoff, batch.to_query # <<>>, raised))
    /\ UNCHANGED rest

\* A response that leaves no key unprocessed.
BatchRespondAll ==
    /\ batch.pc = "wait"
    /\ \E raised \in RandintErrors :
           batch' = Delayed(Received(batch, Responses(batch, batch.sent), <<>>),
                            sleep_when(batch.backoff, batch.to_query # <<>>, raised))
    /\ UNCHANGED rest

\* aws_storage.py:59, 73: next_query is empty and ret is returned.
BatchReturn ==
    /\ batch.pc = "loop"
    /\ batch.next_query = <<>>
    /\ batch' = [batch EXCEPT !.pc = "done"]
    /\ UNCHANGED rest

NextBatch ==
    \/ BatchStart
    \/ BatchRequest
    \/ BatchRespond
    \/ BatchReturn

SpecBatch == InitBatch /\ [][NextBatch]_vars

\* A call that has started goes on, the backend answers every request, and
\* a key that is sent again and again is processed in the end: a response
\* without unprocessed keys comes if requests are sent for ever.
SpecBatchFair ==
    /\ SpecBatch
    /\ WF_vars(BatchRequest) /\ WF_vars(BatchReturn)
    /\ SF_vars(BatchRespondAll)

(***************************************************************************)
(* The Table facade over AwsDynamoStorage (aws_storage.py:27-29, 141-142,  *)
(* 160-161) and the DynamoDB table behind it.                              *)
(***************************************************************************)
\* dict(key) of an insertion-ordered dict, as a record.
AsRecord(key) == [f \in KeySet(key) |-> DictGet(key, f)]

\* DynamoDB's put_item on a table whose key schema is names: the item takes
\* the place of the item with its key.
put_item(db, names, Item) ==
    [k \in DOMAIN db \cup {[f \in names |-> Item[f]]} |->
         IF k = [f \in names |-> Item[f]] THEN Item ELSE db[k]]

\* result.get("Item", None) of DynamoDB's get_item: a list of the item, or
\* the empty list for None.
ItemOf(db, Key) == IF Key \in DOMAIN db THEN <<db[Key]>> ELSE <<>>

\* DynamoDB's delete_item, called without ReturnValues: the response holds
\* the metadata of the request and no attributes of the item.
delete_item(db, Key) ==
    [db       |-> [k \in DOMAIN db \ {Key} |-> db[k]],
     response |-> [ResponseMetadata |-> [HTTPStatusCode |-> Int_(200)]]]

\* AwsDynamoStorage.get_item: the item decoded, or None.
aws_get_item(db, key) ==
    [n \in 1..Len(ItemOf(db, _encode(AsRecord(key)))) |->
         _decode(ItemOf(db, _encode(AsRecord(key)))[n])]

\* AwsDynamoStorage.put: the data is encoded and put.
aws_put(db, names, data) == put_item(db, names, _encode(data))

\* AwsDynamoStorage.delete returns what delete_item returned.
aws_delete(db, key) ==
    [db  |-> delete_item(db, _encode(AsRecord(key))).db,
     ret |-> <<delete_item(db, _encode(AsRecord(key))).response>>]

\* Table.create over the adapter: the checks of create, then storage.put.
RemoteCreate(t, db, data) ==
    IF create(t, <<>>, data).error # None
    THEN [db |-> db, ret |-> Returns(create(t, <<>>, data).error, <<>>, NoToken, tables, <<>>)]
    ELSE [db |-> aws_put(db, _key_names(t), data),
          ret |-> Returns(None, <<data>>, NoToken, tables, <<"put">>)]

\* Table.get over the adapter, of a key that names the table's key fields.
RemoteGot(t, db, key, one_key) ==
    IF IsError(_determine_lookup(t, key, FALSE, one_key))
    THEN Returns(_determine_lookup(t, key, FALSE, one_key).kind, <<>>, NoToken, tables, <<>>)
    ELSE Returns(None, aws_get_item(db, key), NoToken, tables, <<"get_item">>)

\* Table.delete over the adapter.
RemoteDeleted(t, db, key) ==
    IF _validate_key(t, key) # None
    THEN [db |-> db, ret |-> Returns(_validate_key(t, key), <<>>, NoToken, tables, <<>>)]
    ELSE [db |-> aws_delete(db, key).db,
          ret |-> Returns(None, aws_delete(db, key).ret, NoToken, tables, <<"delete">>)]

\* The data a client puts in the remote table, and the keys it reads and
\* deletes by: the primary keys and a key without sort key.
RemoteData ==
    {[id |-> i, sk |-> k, v |-> x] :
         i \in StoreIds, k \in StoreSks, x \in {Str(<<"p">>), Int_(1)}}
RemoteKeys ==
    {<<<<"id", i>>, <<"sk", k>>>> : i \in StoreIds, k \in StoreSks}
    \cup {<<<<"id", Str(<<"a">>)>>>>}

\* The remote table without items.
NoItems == [k \in {} |-> k]

InitRemote ==
    /\ Unthreaded
    /\ batch = <<>>
    /\ delmany = <<>>
    /\ remote = NoItems
    /\ table = WriteTable
    /\ tables = <<>>
    /\ last = NoLast
    /\ lookup = NoLookup
    /\ pages = <<<<>>>>
    /\ cur = NoCursor
    /\ hist = NoHist

local == <<table, lookup, pages, cur, hist, tables, conc, batch, delmany>>

RemotePut ==
    /\ Idle
    /\ \E data \in RemoteData :
           /\ last' = Called("put", <<>>, FALSE, NoLimit, NoToken,
                             RemoteCreate(table, remote, data).ret, <<>>, data)
           /\ remote' = RemoteCreate(table, remote, data).db
    /\ UNCHANGED local

RemoteGet ==
    /\ Idle
    /\ \E key \in RemoteKeys : \E one_key \in KeySet(key) :
           last' = Called("get", key, FALSE, NoLimit, NoToken,
                          RemoteGot(table, remote, key, one_key), <<>>, <<>>)
    /\ UNCHANGED <<remote, local>>

RemoteDelete ==
    /\ Idle
    /\ \E key \in RemoteKeys :
           /\ last' = Called("delete", key, FALSE, NoLimit, NoToken,
                             RemoteDeleted(table, remote, key).ret, <<>>, <<>>)
           /\ remote' = RemoteDeleted(table, remote, key).db
    /\ UNCHANGED local

NextRemote ==
    \/ RemotePut
    \/ RemoteGet
    \/ RemoteDelete
    \/ Return

SpecRemote == InitRemote /\ [][NextRemote]_vars

(***************************************************************************)
(* Table.del_many (table.py:191-209), followed from page to page.  The     *)
(* backend returns the matches of get_many whole or cut to a page, as a    *)
(* query that stops at the size limit of a response does.                  *)
(***************************************************************************)
\* The for loop over the page (table.py:205-207) from item n on: key is the
\* variable of the method, which the loop assigns the primary key of every
\* item before it deletes the item.
RECURSIVE Deleting(_, _, _, _, _)
Deleting(t, tbls, key, items, n) ==
    IF n > Len(items) THEN [tables |-> tbls, key |-> key, error |-> None]
    ELSE IF delete_(t, tbls, _extract_key(t, items[n])).error # None
    THEN [tables |-> tbls, key |-> _extract_key(t, items[n]),
          error |-> delete_(t, tbls, _extract_key(t, items[n])).error]
    ELSE Deleting(t, delete_(t, tbls, _extract_key(t, items[n])).tables,
                  _extract_key(t, items[n]), items, n + 1)

\* to_delete = self.get_many(key) of frame f, r being what get_many gave.
Fetched(f, r) ==
    IF r.error # None THEN [f EXCEPT !.pc = "raised", !.error = r.error]
    ELSE [f EXCEPT !.pc = "loop", !.to_delete = r.items]

\* backoff.sleep_when(to_delete) (table.py:209), s being what it gave.
Waited(f, s) ==
    IF f.pc = "raised" THEN f
    ELSE IF s.error # None THEN [f EXCEPT !.pc = "raised", !.error = s.error]
    ELSE [f EXCEPT !.backoff = s.backoff]

\* One turn of the while loop (table.py:205-209): d is the outcome of the
\* for loop, r the page of get_many(key) after it, raised the error of the
\* interpreter's randint.
Turned(f, d, r, raised) ==
    IF d.error # None THEN [f EXCEPT !.pc = "raised", !.error = d.error, !.key = d.key]
    ELSE Waited(Fetched([f EXCEPT !.key = d.key], r),
                sleep_when(f.backoff, r.error = None /\ r.items # <<>>, raised))

\* The records a table may hold when del_many is called, in the order they
\* are stored in: records of one partition by sort key, one with sort key 0,
\* one of another partition.
DelRecords ==
    [n \in 1..MaxRecords |-> [id |-> Str(<<"a">>), sk |-> Int_(n), v |-> Str(<<"p">>)]]
    \o <<[id |-> Str(<<"a">>), sk |-> Int_(0), v |-> Str(<<"p">>)],
         [id |-> Str(<<"b">>), sk |-> Int_(1), v |-> Str(<<"p">>)]>>

\* The records of all at the indexes in S, in their order.
Picked(all, S) ==
    [n \in 1..Cardinality(S) |->
         all[CHOOSE i \in S : Cardinality({j \in S : j < i}) = n - 1]]

\* The key fragments del_many is called with.
DelFragments ==
    {<<<<"id", Str(<<"a">>)>>>>, <<<<"id", Str(<<"b">>)>>>>,
     <<<<"id", Str(<<"a">>)>>, <<"sk", Int_(1)>>>>}

\* The sizes a page is cut to: not at all, or to some records.
DelCuts == {NoLimit} \cup (1..MaxPageLen)

\* The call before its first statement; before is self.tables at the call.
DelManyCall(key, tbls) ==
    [pc |-> "call", fragment |-> key, key |-> key, to_delete |-> <<>>,
     backoff |-> ExponentialBackoff, error |-> None, before |-> tbls]

InitDelMany ==
    /\ Unthreaded
    /\ batch = <<>>
    /\ remote = <<>>
    /\ table = WriteTable
    /\ \E S \in SUBSET (1..Len(DelRecords)) : tables = [t |-> Picked(DelRecords, S)]
    /\ \E key \in DelFragments : delmany = DelManyCall(key, tables)
    /\ last = NoLast
    /\ lookup = NoLookup
    /\ pages = <<<<>>>>
    /\ cur = NoCursor
    /\ hist = NoHist

others == <<table, lookup, pages, cur, hist, last, conc, batch, remote>>

\* table.py:199-203: the first page.
DelManyStart ==
    /\ delmany.pc = "call"
    /\ \E limit \in DelCuts : \E one_key \in KeySet(delmany.key) :
           delmany' = Fetched(delmany, get_many(table, tables, delmany.key, FALSE, limit,
                                                NoToken, one_key))
    /\ UNCHANGED <<tables, others>>

\* table.py:204-209: a turn of the loop on a page that holds records.
DelManyTurn ==
    /\ delmany.pc = "loop"
    /\ delmany.to_delete # <<>>
    /\ \E limit \in DelCuts, raised \in RandintErrors : \E one_key \in _key_names(table) :
           /\ delmany' =
                  Turned(delmany,
                         Deleting(table, tables, delmany.key, delmany.to_delete, 1),
                         get_many(table,
                                  Deleting(table, tables, delmany.key, delmany.to_delete, 1).tables,
                                  Deleting(table, tables, delmany.key, delmany.to_delete, 1).key,
                                  FALSE, limit, NoToken, one_key),
                         raised)
           /\ tables' = Deleting(table, tables, delmany.key, delmany.to_delete, 1).tables
    /\ UNCHANGED others

\* The page is empty: the loop ends and del_many returns.
DelManyReturn ==
    /\ delmany.pc = "loop"
    /\ delmany.to_delete = <<>>
    /\ delmany' = [delmany EXCEPT !.pc = "done"]
    /\ UNCHANGED <<tables, others>>

NextDelMany ==
    \/ DelManyStart
    \/ DelManyTurn
    \/ DelManyReturn

SpecDelMany == InitDelMany /\ [][NextDelMany]_vars

(***************************************************************************)
(* Claims about the cursor, under SpecCursor.                              *)
(***************************************************************************)
\* The elements of an uninterrupted iteration of the query.
Uninterrupted == Drain(pages, QueryCursor(pages, NoToken))

\* The elements a new cursor constructed from the token the cursor gives now
\* yields when iterated to completion.
Resumed == Drain(pages, QueryCursor(pages, next_page_token(pages, cur).ret))

C3_LazyConstruction == hist.op = "new" => cur.fetches = <<>>

\* C4: over the lifetime of a cursor no backend token is fetched twice, and
\* unless the last access advanced the cursor (advance, or next() which ends
\* with advance), eof fetches nothing.
C4_FetchOnce ==
    HaveCursor =>
        /\ \A m, n \in 1..Len(cur.fetches) : cur.fetches[m] = cur.fetches[n] => m = n
        /\ hist.op \notin {"advance", "next"} => eof(pages, cur).c.fetches = cur.fetches

\* The second page has been fetched and eof asked again.
C4_Witness ==
    /\ HaveCursor
    /\ Len(cur.fetches) >= 2
    /\ hist.op = "eof"
    /\ eof(pages, cur).c.fetches = cur.fetches

\* C5: with a page fetched, eof is true exactly when the in-page index has
\* passed the page's last element and the page carries no next-page token.
C5_EofMeaning ==
    (HaveCursor /\ cur.page # <<>>) =>
        (eof(pages, cur).ret <=>
            /\ cur.i >= Len(cur.page[1].records)
            /\ ~Truthy(cur.page[1].next_page_token))

(***************************************************************************)
(* Claims about lookup resolution, under SpecLookup.                       *)
(***************************************************************************)
\* The last call's fragment has no empty value.
LookupNoEmpty(key_data) == \A n \in 1..Len(key_data) : ~Falsy(key_data[n][2])

\* What the caller can tell two results apart by: the kind of lookup and the
\* index it names, or that an error was raised.
Outcome(r) == IF IsError(r) THEN <<"error", None>> ELSE <<r.kind, r.index_name>>

\* An index matches a fragment as section 4.1 of the specification says it:
\* the field set is the index's key set, or the single field is its partition key.
SpecIndexMatch(index, keys) ==
    \/ keys = {x \in {index.partition_key, index.sort_key} : x # None}
    \/ keys = {index.partition_key}

SpecHits(t, keys) == {n \in 1..Len(t.indexes) : SpecIndexMatch(t.indexes[n], keys)}

FirstOf(S) == CHOOSE n \in S : \A m \in S : n <= m

\* C6: a fragment with no empty value whose field set is the table's key set
\* resolves to a TableLookup, also when an index matches; otherwise one that
\* matches a declared index resolves to an IndexLookup for that index (the
\* first such index in declaration order); and fragments with the same field
\* set and other values resolve alike.
C6_LookupByFieldSet ==
    (lookup # NoLookup /\ LookupNoEmpty(lookup.key_data)) =>
        LET keys == KeySet(lookup.key_data)
            r    == lookup.result
            hits == SpecHits(table, keys)
        IN  /\ keys = _key_names(table) => r.kind = "TableLookup"
            /\ (keys # _key_names(table) /\ hits # {}) =>
                   /\ r.kind = "IndexLookup"
                   /\ r.index_name = table.indexes[FirstOf(hits)].index_name
            /\ \A kd2 \in LookupFragments :
                   (KeySet(kd2) = keys /\ LookupNoEmpty(kd2)) =>
                       Outcome(_determine_lookup(table, kd2, lookup.many, lookup.one_key))
                           = Outcome(r)

\* The case of C7: the table declares a sort key, no index has the table's
\* partition key as its partition key, and the fragment holds only the
\* table's partition key.
PartitionOnlyCase ==
    /\ lookup # NoLookup
    /\ table.sort_key # None
    /\ \A n \in 1..Len(table.indexes) :
           table.indexes[n].partition_key # table.partition_key
    /\ KeySeq(lookup.key_data) = <<table.partition_key>>

PartitionOnlyResult ==
    IF lookup.many
    THEN lookup.result = TableLookup(table.table_name, lookup.key_data)
    ELSE IsError(lookup.result)

\* C7 as stated: in that case the fragment resolves to a TableLookup when
\* many results are allowed and fails when a single result is required.
C7_PartitionOnlyAnyValue == PartitionOnlyCase => PartitionOnlyResult

\* C7 as amended: the same for a fragment whose value is not empty (an empty
\* value fails with a ValueError whatever many is).
C7_PartitionOnlyFragment ==
    (PartitionOnlyCase /\ LookupNoEmpty(lookup.key_data)) =>
        /\ PartitionOnlyResult
        /\ ~lookup.many => lookup.result = Raise("RuntimeError", "missing sort key")

C7_Witness ==
    /\ PartitionOnlyCase
    /\ LookupNoEmpty(lookup.key_data)
    /\ lookup.many
    /\ lookup.result.kind = "TableLookup"

\* C8: a fragment whose field set is neither the table's key set nor a
\* declared index's key set, and which is not a single field equal to an
\* index partition key or the table partition key, fails with an error.
C8_UnknownFragmentRejected ==
    LET keys == KeySet(lookup.key_data)
    IN  (/\ lookup # NoLookup
         /\ keys # _key_names(table)
         /\ SpecHits(table, keys) = {}
         /\ keys # {table.partition_key})
        => IsError(lookup.result)

\* C9: for fixed descriptors the outcome of a resolution is a function of the
\* fragment's field set and the many flag, whatever the iteration order of the
\* fragment's fields; and of several matching indexes the first is chosen.
C9_LookupDeterministic ==
    (lookup # NoLookup /\ LookupNoEmpty(lookup.key_data)) =>
        LET keys == KeySet(lookup.key_data)
            hits == SpecHits(table, keys)
        IN  /\ \A kd2 \in LookupFragments, one_key2 \in keys :
                   (KeySet(kd2) = keys /\ LookupNoEmpty(kd2)) =>
                       Outcome(_determine_lookup(table, kd2, lookup.many, one_key2))
                           = Outcome(lookup.result)
            /\ (lookup.result.kind = "IndexLookup" /\ hits # {}) =>
                   lookup.result.index_name = table.indexes[FirstOf(hits)].index_name

(***************************************************************************)
(* Claims about the local engine behind the Table facade, under Spec.      *)
(***************************************************************************)
\* The fragment resolves to one lookup whichever element list(keys)[0] is.
WellResolved(key) ==
    \A k1 \in KeySet(key), k2 \in KeySet(key) :
        _determine_lookup(table, key, TRUE, k1) = _determine_lookup(table, key, TRUE, k2)

\* The records of the last query issued with no limit.
Unpaginated ==
    get_many(table, tables, last.key, last.reverse, NoLimit, NoToken,
             CHOOSE k \in KeySet(last.key) : TRUE).items

\* The last page of a query that was followed from its first page.
QueryFollowed ==
    /\ last.op = "get_many"
    /\ last.error = None
    /\ last.limit >= 1
    /\ last.next = NoToken
    /\ WellResolved(last.key)

\* C1: for every table query and index query, either direction and every
\* limit of at least 1, the pages got by following next_page_token from the
\* first page until it is none, concatenated, are the records of the same
\* query with no limit: the same records in the same order.
C1_PaginationCorrect == QueryFollowed => last.acc = Unpaginated

\* A fragment Table.get or Table.get_many must reject: it has an empty value,
\* or its field set is neither the table's key set, nor the key set or the
\* partition key of a declared index, nor (get_many) the table's partition key.
BadFragment(key, many) ==
    \/ ~LookupNoEmpty(key)
    \/ /\ KeySet(key) # _key_names(table)
       /\ SpecHits(table, KeySet(key)) = {}
       /\ ~(many /\ KeySet(key) = {table.partition_key})

\* A key Table.update, Table.delete and Table.batch_get must reject.
BadKey(key) == KeySet(key) # _key_names(table) \/ ~LookupNoEmpty(key)

\* The last call was made with a key or data that validation must reject.
BadCall ==
    \/ last.op = "get" /\ BadFragment(last.key, FALSE)
    \/ last.op = "get_many" /\ BadFragment(last.key, TRUE)
    \/ last.op = "batch_get" /\ \E n \in 1..Len(last.key) : BadKey(last.key[n])
    \/ last.op \in {"update", "delete"} /\ BadKey(last.key)
    \/ last.op = "create" /\ ~(_key_names(table) \subseteq DOMAIN last.data)

\* C10: a call with an empty key value, a wrong key shape, a field that is
\* no known key, or (create) data lacking a key field raises an error before
\* any storage method is invoked, and the stored records are unchanged.
C10_FailFast == BadCall => (last.error # None /\ last.calls = <<>> /\ ~last.changed)

(***************************************************************************)
(* Claims about the local engine, under Spec.                              *)
(***************************************************************************)
\* The fragment carries a Condition on a field that is the sort key neither
\* of the table nor of any of its indexes.
OffSortKeyCondition(key) ==
    \E i \in 1..Len(key) :
        /\ IsCondition(key[i][2])
        /\ key[i][1] # table.sort_key
        /\ \A n \in 1..Len(table.indexes) : key[i][1] # table.indexes[n].sort_key

\* C11: a get or get_many whose fragment carries a Condition on a field other
\* than the sort key of the table or index queried is rejected with an error
\* and returns no records, also when no sort key is declared.
C11_ConditionsOnlySortKey ==
    (last.op \in {"get", "get_many"} /\ OffSortKeyCondition(last.key)) =>
        (last.error # None /\ last.items = <<>>)

\* C12: a record handed to put and every record a read or update returned is
\* a copy: the caller assigning to a field of such a record never changes
\* self.tables, hence never what a later read returns.
C12_RecordIsolation == last.op = "mutate" => ~last.changed

(***************************************************************************)
(* Claims about the writes, under SpecWrites.                              *)
(***************************************************************************)
\* C13: after any sequence of put, update and delete calls that returned
\* without error, every stored record has the partition key present with a
\* non-empty value and, the table declaring a sort key, the sort key present.
C13_KeyPresence ==
    hist.op # "failed" =>
        \A n \in 1..Len(Records(tables, table.table_name)) :
            LET record == Records(tables, table.table_name)[n]
            IN  /\ table.partition_key \in DOMAIN record
                /\ ~Falsy(record[table.partition_key])
                /\ table.sort_key # None => table.sort_key \in DOMAIN record

\* The place of the record an update of key starts from: that of the first
\* stored record of the key, or one past the end, where a record of just the
\* key fields is created.
UpdatePlace(records, key) ==
    IF \E n \in 1..Len(records) : _eq_matches(records[n], key)
    THEN CHOOSE n \in 1..Len(records) :
             /\ _eq_matches(records[n], key)
             /\ \A m \in 1..(n - 1) : ~_eq_matches(records[m], key)
    ELSE Len(records) + 1
UpdateTarget(records, key) ==
    IF UpdatePlace(records, key) <= Len(records) THEN records[UpdatePlace(records, key)]
    ELSE KeyRecord(key)

\* What the updates make of a record, field by field: a plain value
\* overwrites the field, None removes it, DynamoIncrement adds its delta to
\* the number in the field, 0 if absent, DynamoAddToList appends its elements
\* to the list in the field, [] if absent; a field not named is kept.
UpdateExpected(record, updates) ==
    [f \in {g \in DOMAIN record \cup KeySet(updates) :
                g \in KeySet(updates) => DictGet(updates, g) # NoneValue} |->
        IF f \notin KeySet(updates) THEN record[f]
        ELSE IF DictGet(updates, f)[1] = "DynamoIncrement"
        THEN Int_((IF f \in DOMAIN record THEN record[f][2] ELSE 0) + DictGet(updates, f)[2])
        ELSE IF DictGet(updates, f)[1] = "DynamoAddToList"
        THEN List((IF f \in DOMAIN record THEN record[f][2] ELSE <<>>) \o DictGet(updates, f)[2])
        ELSE DictGet(updates, f)]

\* The step is a call of update that returned without error.
UpdateReturned == last.op = "none" /\ last'.op = "update" /\ last'.error = None

\* C20: update(key, updates) applies every entry of updates to the record of
\* the key, a record of just the key fields if there was none, and returns
\* the record as stored after the update; no other record changes.
C20_UpdateSemantics ==
    [][UpdateReturned =>
          LET records  == Records(tables, table.table_name)
              after    == Records(tables', table.table_name)
              place    == UpdatePlace(records, last'.key)
              expected == UpdateExpected(UpdateTarget(records, last'.key), last'.data)
          IN  /\ last'.items = <<expected>>
              /\ Len(after) = (IF place <= Len(records) THEN Len(records) ELSE place)
              /\ after[place] = expected
              /\ \A n \in 1..Len(records) : n # place => after[n] = records[n]]_vars

\* An update of two entries, one of them an increment, has returned the
\* record of its key, next to a record of another key.
C20_Witness ==
    /\ last.op = "update" /\ last.error = None
    /\ Len(last.data) = 2
    /\ Len(Records(tables, table.table_name)) = 2
    /\ last.items[1] \in {Records(tables, table.table_name)[n] : n \in 1..2}
    /\ "v" \in DOMAIN last.items[1] /\ last.items[1]["v"] = Int_(2)

(***************************************************************************)
(* Claims about the threads, under SpecConc.                               *)
(***************************************************************************)
\* No thread is inside a call, and no thread has called put or delete: the
\* calls made are updates incrementing field v of the one key, and reads.
Quiet == \A t \in Threads : threads[t].pc \in {"idle", "done"}
OnlyIncrements == \A t \in Threads : threads[t].op \notin {"put", "delete"}
DoneUpdates == {t \in Threads : threads[t].pc = "done" /\ threads[t].op = "update"}

\* Field v of the record of the key, 0 if absent.
ValueIn(tbls) ==
    LET records == Records(tbls, table.table_name)
        found   == _find_index(records, ConcKey)
    IN  IF found # 0 /\ "v" \in DOMAIN records[found] THEN records[found]["v"][2] ELSE 0

RECURSIVE SumDeltas(_)
SumDeltas(S) ==
    IF S = {} THEN 0
    ELSE LET t == CHOOSE u \in S : TRUE IN threads[t].delta + SumDeltas(S \ {t})

\* The calls returned what they would in the serial order ord: each the
\* value of the field after the increments of the calls up to its own.
SerialReturns(ord) ==
    \A k \in 1..Len(ord) :
        threads[ord[k]].ret[1]["v"][2]
            = ValueIn(initial) + SumDeltas({ord[j] : j \in 1..k})

Orders(S) == {ord \in [1..Cardinality(S) -> S] : \A j, k \in 1..Cardinality(S) : ord[j] = ord[k] => j = k}

FinalIsSum == ValueIn(tables) = ValueIn(initial) + SumDeltas(DoneUpdates)

\* C14 as stated: any interleaving of concurrent updates incrementing the
\* same field of the same key ends with the field at its initial value (0 if
\* absent) plus the sum of the deltas, and the calls returned pairwise
\* distinct values.
C14_DistinctReturns ==
    (Quiet /\ OnlyIncrements) =>
        /\ FinalIsSum
        /\ \A t, u \in DoneUpdates : threads[t].ret = threads[u].ret => t = u

\* C14 as amended: the field ends at its initial value plus the sum of the
\* deltas and the calls returned the values of one serial order of theirs;
\* these are pairwise distinct if every delta is positive, while increments
\* of both signs can bring the field back to a value returned before.
C14_NoLostUpdate ==
    (Quiet /\ OnlyIncrements) =>
        /\ FinalIsSum
        /\ \E ord \in Orders(DoneUpdates) : SerialReturns(ord)
        /\ (\A t \in DoneUpdates : threads[t].delta > 0) =>
               \A t, u \in DoneUpdates : threads[t].ret = threads[u].ret => t = u

\* Every thread has incremented the field of a record that held 1, two of
\* them by the same delta.
C14_Witness ==
    /\ DoneUpdates = Threads
    /\ ValueIn(initial) = 1
    /\ \E t, u \in Threads : t # u /\ threads[t].delta = threads[u].delta
    /\ ValueIn(tables) = 1 + SumDeltas(Threads)
    /\ ValueIn(tables) # 1 + threads[1].delta

\* C15: the bodies of put, update, delete, query, scan and item_count never
\* execute at once, and every query, scan and item_count returns what it
\* returns on the tables as a whole number of completed mutating calls
\* left them.
InBody == {t \in Threads : threads[t].pc \in {"body", "read", "write", "copy", "return"}}
C15_MutualExclusion ==
    /\ Cardinality(InBody) <= 1
    /\ \A t \in Threads :
           (threads[t].op \in ConcOps \ Mutating /\ threads[t].pc \in {"return", "done"}) =>
               threads[t].ret = ReadOf(threads[t].op, threads[t].base)

\* A query has read the record an update of another thread completed, while
\* a third thread waits for the lock the reader holds.
C15_Witness ==
    \E t, u, w \in Threads :
        /\ threads[t].op = "query" /\ threads[t].pc = "return"
        /\ threads[u].op = "update" /\ threads[u].pc = "done"
        /\ threads[w].pc = "wait"
        /\ threads[t].ret = threads[u].ret
        /\ threads[t].base # initial

(***************************************************************************)
(* Claims about the pages of the local engine, under SpecPages.            *)
(***************************************************************************)
\* The key fields an index declares, and the keys-only indexes of the table
\* that a fragment of exactly these fields is looked up on.
DeclaredKeys(index) ==
    {index.partition_key} \cup (IF index.sort_key # None THEN {index.sort_key} ELSE {})
KeysOnlyHits(key) ==
    {n \in 1..Len(table.indexes) :
        /\ table.indexes[n].keys_only
        /\ KeySet(key) = DeclaredKeys(table.indexes[n])
        /\ \A m \in 1..(n - 1) : table.indexes[m].partition_key \notin KeySet(key)}

\* The query of the last call on index n, not projected.
NotProjected(n) ==
    query_index(tables, table.table_name, table.indexes[n].index_name, last.key,
                table.indexes[n].sort_key, last.reverse,
                IF last.op = "get" THEN 1 ELSE last.limit,
                decode_page_token(last.token), FALSE, key_names(table))

PageGiven ==
    /\ last.op = "scan" \/ (last.op = "get_many" /\ ~BadFragment(last.key, TRUE))
    /\ last.error = None
    /\ last.limit >= 1

\* All the records of the query or scan of the last call, and how many of
\* them remained after the position of the token the call was given: those
\* not on the pages before.
AllRecords == IF last.op = "scan" THEN Records(tables, table.table_name) ELSE Unpaginated
Remaining == Len(AllRecords) - (Len(last.acc) - Len(last.items))

\* C17: a page of query, query_index or scan with limit at least 1 holds
\* min(limit, R) records, R being the matching records that remained after
\* the position of the incoming token; its token is none exactly if the
\* page holds the last remaining record, and no page is empty with a token.
C17_PageSize ==
    PageGiven =>
        /\ Len(last.items) = (IF last.limit < Remaining THEN last.limit ELSE Remaining)
        /\ (last.next = NoToken) <=> (Remaining <= last.limit)
        /\ ~(last.items = <<>> /\ last.next # NoToken)

\* The sort key of what a fragment of key fields queries: that of the table
\* if the fragment names the table's partition key, else that of the first
\* index whose partition key it names.
SortKeyOf(key) ==
    IF table.partition_key \in KeySet(key) THEN table.sort_key
    ELSE table.indexes[CHOOSE n \in 1..Len(table.indexes) :
                           /\ table.indexes[n].partition_key \in KeySet(key)
                           /\ \A m \in 1..(n - 1) :
                                  table.indexes[m].partition_key \notin KeySet(key)].sort_key

\* a comes strictly before b in the direction of the last query.
Before(a, b) == IF last.reverse THEN ValueLess(b, a) ELSE ValueLess(a, b)

\* The last call gave a page of a query on a table or index with a sort key.
SortedPageGiven ==
    /\ last.op = "get_many"
    /\ last.error = None
    /\ ~BadFragment(last.key, TRUE)
    /\ SortKeyOf(last.key) # None

\* C18: with a sort key, each page of a query is ordered by the sort-key
\* value, ascending, or descending if reverse is set, and every record of a
\* later page comes strictly after every record of the pages before it.
C18_Ordering ==
    SortedPageGiven =>
        LET sk      == SortKeyOf(last.key)
            earlier == SubSeq(last.acc, 1, Len(last.acc) - Len(last.items))
        IN  /\ \A i, j \in 1..Len(last.items) :
                   i < j => ~Before(last.items[j][sk], last.items[i][sk])
            /\ \A i \in 1..Len(earlier), j \in 1..Len(last.items) :
                   Before(earlier[i][sk], last.items[j][sk])

\* A later page of a descending query that has given three records, the
\* last of them stored before the first.
C18_Witness ==
    /\ SortedPageGiven
    /\ last.reverse
    /\ last.token # NoToken
    /\ last.items # <<>>
    /\ Len(last.acc) = 3
    /\ LET sk == SortKeyOf(last.key)
       IN  \E m, n \in 1..Len(Records(tables, table.table_name)) :
               /\ m < n
               /\ Records(tables, table.table_name)[m] = last.acc[3]
               /\ Records(tables, table.table_name)[n] = last.acc[1]

\* C19: with no write between the calls, the pages of Table.scan followed by
\* their tokens give every record of the table exactly once in storage
\* order; every page with a token holds limit records, and the page without
\* a token is the last.
C19_ScanPagination ==
    (last.op = "scan" /\ last.error = None /\ last.limit >= 1) =>
        LET records == Records(tables, table.table_name)
        IN  /\ Len(last.acc) <= Len(records)
            /\ last.acc = SubSeq(records, 1, Len(last.acc))
            /\ last.next # NoToken => Len(last.items) = last.limit
            /\ last.next = NoToken => last.acc = records

\* The last page of a scan of three records, two a page.
C19_Witness ==
    /\ last.op = "scan" /\ last.error = None
    /\ last.limit = 2
    /\ last.token # NoToken
    /\ last.next = NoToken
    /\ Len(last.items) = 1
    /\ Len(Records(tables, table.table_name)) = 3
    /\ last.acc = Records(tables, table.table_name)

(***************************************************************************)
(* Updates with DynamoAddToList on a table with a sort key: the field v    *)
(* holds a str in the records put and a list in the records an update has  *)
(* created.                                                                *)
(***************************************************************************)
TypedData == {[id |-> Str(<<"a">>), sk |-> Int_(1), v |-> Str(<<"p">>)]}
TypedKeys == {<<<<"id", Str(<<"a">>)>>, <<"sk", s>>>> : s \in StoreSks}
TypedUpdates ==
    {<<<<"v", DynamoAddToList(<<Str(<<"q">>)>>)>>>>,
     <<<<"w", Int_(1)>>, <<"v", DynamoAddToList(<<Str(<<"q">>)>>)>>>>,
     <<<<"v", DynamoAddToList(<<Str(<<"q">>)>>)>>, <<"w", DynamoIncrement(1)>>>>,
     <<<<"w", NoneValue>>>>}

PutTyped ==
    /\ Idle
    /\ \E data \in TypedData :
           LET r == create(table, tables, data)
           IN  /\ Len(Records(r.tables, table.table_name)) <= MaxWrites
               /\ last' = Called("put", <<>>, FALSE, NoLimit, NoToken, r, <<>>, data)
               /\ tables' = r.tables
               /\ hist' = Noted(r)
    /\ UNCHANGED <<table, lookup, pages, cur, conc, frames>>

UpdateTyped ==
    /\ Idle
    /\ \E key \in TypedKeys, updates \in TypedUpdates :
           LET r == update_(table, tables, key, updates)
           IN  /\ Len(Records(r.tables, table.table_name)) <= MaxWrites
               /\ Bounded(Records(r.tables, table.table_name))
               /\ last' = Called("update", key, FALSE, NoLimit, NoToken, r, <<>>, updates)
               /\ tables' = r.tables
               /\ hist' = Noted(r)
    /\ UNCHANGED <<table, lookup, pages, cur, conc, frames>>

NextTyped ==
    \/ PutTyped
    \/ UpdateTyped
    \/ DeleteKey
    \/ GetKey
    \/ Return

SpecTyped == InitWrites /\ [][NextTyped]_vars

(***************************************************************************)
(* Claims about updates that raise, under SpecTyped.                       *)
(***************************************************************************)
\* The step is a call of update with a DynamoAddToList entry that raised
\* TypeError.
ListUpdateFailed ==
    /\ last.op = "none" /\ last'.op = "update" /\ last'.error = "TypeError"
    /\ \E n \in 1..Len(last'.data) : last'.data[n][2][1] = "DynamoAddToList"

\* C21: an update whose list operator finds a value of another type in the
\* field raises TypeError, and the failed call is all-or-nothing: no field of
\* a stored record is changed and no record is created by it.
C21_TypeErrorAllOrNothing == [][ListUpdateFailed => tables' = tables]_vars

(***************************************************************************)
(* Claims about reading what was written, under SpecWrites.                *)
(***************************************************************************)
\* What get with the primary key of data returns from the table as it is.
ReadBack(data, one_key) == get(table, tables, _extract_key(table, data), one_key)

\* C27: after put(data) has returned, get with the primary key of data
\* returns a record equal to data; and get for the key of a get that has
\* returned, no write in between, returns an equal record again.
C27_ReadYourWrites ==
    /\ (last.op = "put" /\ last.error = None) =>
           \A one_key \in {table.partition_key, table.sort_key} :
               /\ ReadBack(last.data, one_key).error = None
               /\ ReadBack(last.data, one_key).items = <<last.data>>
    /\ (last.op = "get" /\ last.error = None) =>
           \A one_key \in KeySet(last.key) :
               /\ get(table, tables, last.key, one_key).error = None
               /\ get(table, tables, last.key, one_key).items = last.items

(***************************************************************************)
(* Claims about the page tokens, under SpecPages.                          *)
(***************************************************************************)
\* The cursor's resumption token over a backend token (cursor.py:90-93), and
\* what _analyze_pagination_token (cursor.py:76-88) makes of it.
ResumptionToken(token, i) == token \o <<"@">> \o DecStr(i)
Analyzed(x) == <<Split(x, "@")[1], DecInt(Split(x, "@")[2])>>

\* The step gave a page of get_many or scan with a token.
TokenGiven == last.op \in {"get_many", "scan"} /\ last.error = None /\ last.next # NoToken

\* C28: decode_page_token(encode_page_token(t)) = t for every position key
\* t the local engine produces and for None; the encoded token holds no
\* '@', so splitting a resumption token at '@' gives back the backend token
\* and the consumed count.
C28_TokenRoundTrip ==
    /\ decode_page_token(encode_page_token(<<>>)) = <<>>
    /\ encode_page_token(<<>>) = NoToken
    /\ TokenGiven =>
           /\ last.position # <<>>
           /\ decode_page_token(encode_page_token(last.position)) = last.position
           /\ \A n \in 1..Len(last.next) : last.next[n] # "@"
           /\ \A i \in 0..MaxRecords :
                  Analyzed(ResumptionToken(last.next, i)) = <<last.next, i>>

\* A page of a query on the table's sort key has been given with the token
\* of the position {id, sk: 2}.
C28_Witness ==
    /\ TokenGiven
    /\ KeySeq(last.position) = <<"id", "sk">>
    /\ last.position[2][2] = Int_(2)

(***************************************************************************)
(* Claims about stepping through a cursor, under SpecSteps.                *)
(***************************************************************************)
\* The records behind the cursor: the pages of the backend, concatenated.
RECURSIVE Concat(_)
Concat(pgs) == IF pgs = <<>> THEN <<>> ELSE pgs[1] \o Concat(Tail(pgs))

\* No page of the backend is empty.
FullPages == \A n \in 1..Len(pages) : pages[n] # <<>>

\* C29: after j calls of advance on a cursor over N records spread over
\* pages (here none of them empty), whatever eof and current accesses were
\* made in between, current is element j of the records for j < N, and
\* raises at the end of the data.
C29_AdvanceByOne ==
    (HaveCursor /\ FullPages) =>
        IF hist.advances < Len(Concat(pages))
        THEN /\ current(pages, cur).status = "ok"
             /\ current(pages, cur).value = Concat(pages)[hist.advances + 1]
        ELSE current(pages, cur).status = "RuntimeError"

(***************************************************************************)
(* Claims about batch_get_item of the remote adapter, under SpecBatch.     *)
(***************************************************************************)
\* The distinct keys of the call, as they travel.
RequestedKeys == {_encode(batch.keys_map[n][2]) : n \in 1..Len(batch.keys_map)}

\* resp_dict.get(id) of Table.batch_get (table.py:100-103): the record of the
\* id as a list of one element, or the empty list for None.
RecordOfId(id) ==
    IF \E i \in batch.ret : i[1] = id
    THEN <<(CHOOSE i \in batch.ret : i[1] = id)[2]>> ELSE <<>>

\* What the remote table holds for the key of entry n of keys_map.
StoredFor(n) ==
    IF _encode(batch.keys_map[n][2]) \in DOMAIN batch.db
    THEN <<_decode(batch.db[_encode(batch.keys_map[n][2])])>> ELSE <<>>

\* Every id has the record of its key, or None.
Complete ==
    \A n \in 1..Len(batch.keys_map) : RecordOfId(batch.keys_map[n][1]) = StoredFor(n)

\* The keys waiting in the queue and in the next request, in order.
Queue == batch.to_query \o batch.next_query

\* The step is the start of the call, which fills the queue.
Started == batch.pc = "call" /\ batch'.pc = "loop"

\* C22: for any keys map, each distinct key is placed in the request queue
\* once, the call returns, and the result maps every id whose key has a
\* stored record to that record and no other id.
C22_DedupFanOut ==
    /\ [][Started =>
             /\ {batch'.to_query[n] : n \in 1..Len(batch'.to_query)}
                    \cup {batch'.next_query[n] : n \in 1..Len(batch'.next_query)}
                    = RequestedKeys
             /\ Len(batch'.to_query) + Len(batch'.next_query) = Cardinality(RequestedKeys)]_vars
    /\ [](batch.pc # "raised")
    /\ [](batch.pc = "done" => Complete)

\* C23: the keys left unprocessed are sent again, with no bound on the
\* attempts, and with a backend that processes every key in the end the
\* call, once in its loop, returns with the record of every requested key
\* that exists.
C23_RetryCompletes == (batch.pc = "loop") ~> (batch.pc = "done" /\ Complete)

\* The step is a response arriving.
Responded == batch.pc = "wait" /\ batch'.pc # "wait"

\* C24: whenever a response leaves keys unresolved, a delay is taken before
\* the request that sends them again, and the bound of the delay doubles
\* with every delay taken; with nothing to wait for, no delay is taken and
\* the bound is unchanged.
C24_BackoffBeforeResubmit ==
    [][Responded =>
          IF batch'.unresolved # <<>>
          THEN /\ batch'.error = None
               /\ batch'.slept = batch.slept + 1
               /\ batch'.backoff.time = 2 * batch.backoff.time
          ELSE (batch.to_query = <<>> => /\ batch'.slept = batch.slept
                                         /\ batch'.backoff = batch.backoff)]_vars

\* C30: every request carries at least 1 and at most 100 keys, and the loop
\* is left exactly when no key is pending or unprocessed: it is not left
\* with a key in the queue, and it goes on while there is one.
C30_ChunkBound ==
    /\ batch.pc = "wait" => Len(batch.sent) \in 1..ChunkSize
    /\ Len(batch.next_query) <= ChunkSize
    /\ batch.pc \in {"done", "raised"} => Queue = <<>>
    /\ (batch.pc = "loop" /\ batch.next_query = <<>>) => batch.to_query = <<>>

(***************************************************************************)
(* Claims about delete over the remote adapter, under SpecRemote.          *)
(***************************************************************************)
\* The step is a call of delete that raised nothing.
DeleteReturned == last.op = "none" /\ last'.op = "delete" /\ last'.error = None

\* C26: delete of a full primary key returns the record that was stored
\* under the key, or none when there was none; afterwards get of the key
\* finds nothing, every other record is as it was, and a delete of an absent
\* key changes nothing.
C26_DeleteContract ==
    [][DeleteReturned =>
          /\ last'.items = aws_get_item(remote, last'.key)
          /\ aws_get_item(remote', last'.key) = <<>>
          /\ \A key \in RemoteKeys \ {last'.key} :
                 aws_get_item(remote', key) = aws_get_item(remote, key)
          /\ aws_get_item(remote, last'.key) = <<>> => remote' = remote]_vars

(***************************************************************************)
(* Claims about del_many, under SpecDelMany.                               *)
(***************************************************************************)
\* The records of the table that match the fragment del_many was called
\* with, and the records the table held at the call that do not.
Matching == {n \in 1..Len(Records(tables, table.table_name)) :
                 _eq_matches(Records(tables, table.table_name)[n], delmany.fragment)}
Spared == SelectSeq(Records(delmany.before, table.table_name),
                    LAMBDA record : ~_eq_matches(record, delmany.fragment))

\* C25: when del_many returns, no record that matches the fragment it was
\* called with remains, also when get_many gives the matches a page at a
\* time, and the records that do not match are untouched.
C25_DelManyAll ==
    delmany.pc = "done" => /\ Matching = {}
                           /\ Records(tables, table.table_name) = Spared

(***************************************************************************)
(* Claims about the primary keys of the stored records, under SpecWrites.  *)
(***************************************************************************)
\* The primary key of a stored record: its values in the table's key fields.
PrimaryKey(t, record) == [f \in _key_names(t) \cap DOMAIN record |-> record[f]]

\* The primary keys stored in the table.
PrimaryKeys ==
    {PrimaryKey(table, Records(tables, table.table_name)[n]) :
         n \in 1..Len(Records(tables, table.table_name))}

\* C32: after any sequence of put, update and delete calls no two records
\* of the table have the same primary key, and item_count returns the
\* number of distinct primary keys stored.
C32_KeyUnique ==
    /\ \A m, n \in 1..Len(Records(tables, table.table_name)) :
           m # n => PrimaryKey(table, Records(tables, table.table_name)[m])
                        # PrimaryKey(table, Records(tables, table.table_name)[n])
    /\ last.op = "item_count" => last.items = <<Int_(Cardinality(PrimaryKeys))>>

(***************************************************************************)
(* Claims about the lock of the local engine, under SpecLockFair.          *)
(***************************************************************************)
\* The step leaves a with block.
WithLeft(t) == threads[t].pc = "leave" /\ threads'[t].pc # "leave"

\* C31: no caller arrives at the lock while it holds the lock, the lock is
\* free after every exit of a locked method, whether the body returned or
\* raised, and under fair scheduling every call of every caller returns.
C31_DeadlockFree ==
    /\ [](\A t \in Callers : ~(threads[t].pc = "wait" /\ threads[t].holds))
    /\ [][\A t \in Callers : WithLeft(t) => lock' = FALSE]_vars
    /\ \A t \in Callers : (threads[t].pc # "idle") ~> (threads[t].pc = "idle")

\* A caller is about to leave query by an exception while another waits for
\* the lock.
C31_Witness ==
    \E t, u \in Callers :
        /\ threads[t].pc = "leave" /\ threads[t].error # None
        /\ threads[t].op = "get_item"
        /\ threads[u].pc = "wait"

====
